---- MODULE Spec2Model ----
(***************************************************************************)
(* Multi-tenant finance tracker (prosper-finance).                         *)
(*                                                                         *)
(* The repository ships the same application three times over one          *)
(* database schema:                                                        *)
(*   "server"  src/server/routes.ts  + src/server/storage.ts (Express)     *)
(*   "api"     src/api/index.ts, second copy (Vercel serverless)           *)
(*   "simple"  src/server/simple-auth.ts (register/login without session)  *)
(* The variable deployment fixes which one is running; every action is     *)
(* one HTTP request handled to completion by that deployment.              *)
(*                                                                         *)
(* Fields origin (rows), regDomain (users) and role (sessions of the       *)
(* "server" deployment) are history fields: no handler reads them.         *)
(***************************************************************************)
EXTENDS Integers, Sequences, FiniteSets, TLC

\* ---- bounds ------------------------------------------------------------
MaxEmails == 2
MaxDomains == 2
MaxClients == 2
MaxAccounts == 3
MaxPolicies == 1
MaxInvestments == 1
MaxVal == 2
MaxPassword == 2
\* days the clock runs
MaxTime == 8
\* days the clock runs where only the order of two instants matters
ClockHorizon == 2
\* rows of a table the dashboard statistics are computed over
MaxStatRows == 2
\* files ever put into the document storage
MaxBlobs == 2

\* ---- program constants -------------------------------------------------
MinPasswordLength == 6
\* routes.ts sessionTtl = 7 * 24 * 60 * 60 * 1000, in days
SessionTtlDays == 7
\* api/index.ts cookie.maxAge = 24 * 60 * 60 * 1000, in days
ApiSessionMaxAgeDays == 1
\* storage.ts getDashboardStats: sixtyDaysFromNow.setDate(now.getDate() + 60)
StatsWindowDays == 60
\* api/index.ts GET /api/dashboard/stats: daysToMaturity <= 30, daysToMaturity <= 60
ApiRenewalDays == 30
ApiExpiringDays == 60

Clients == 1..MaxClients
Vals == 1..MaxVal
\* password 0 is shorter than MinPasswordLength, the others are long enough
Passwords == 0..MaxPassword

NoTenant == 0   \* tenant_id NULL / session.tenantId undefined
Absent == 0     \* a body field that is not present
NoUser == 0

Roles == {"admin", "user"}
\* role values a client can put in a body: the two roles and something else
RoleInputs == Roles \cup {"owner"}
\* tenantId values a client can put in a body (Absent, or any id)
TenantInputs == 0..MaxDomains
\* a value a schema or a column type rejects
Invalid == -1
\* NULL in a text column
Null == "null"
\* parseFloat(pol.premium || '0') and the factor between a month and a year
MonthsPerYear == 12
\* request bodies of the policy and investment routes
Bodies == [val : {Invalid, Absent} \cup Vals, tenantId : TenantInputs]

\* blobs is the document storage (Vercel Blob or the uploads directory): blobs[u] says
\* whether the file that was stored under url u is still there
VARIABLES deployment, tenants, users, sessions, policies, investments,
          nextPolicyId, nextInvestmentId, now, last, pending, blobs, updating, adminCall

vars == <<deployment, tenants, users, sessions, policies, investments,
          nextPolicyId, nextInvestmentId, now, last, pending, blobs, updating, adminCall>>

store == <<tenants, users, policies, investments, nextPolicyId, nextInvestmentId>>

\* ---- password hashing (bcryptjs, an opaque one-way function) ------------
PasswordLength(p) == IF p = 0 THEN MinPasswordLength - 1 ELSE MinPasswordLength + p - 1

BcryptHash(p) == <<"bcrypt", p>>

BcryptCompare(p, h) == h = BcryptHash(p)

\* ---- sessions ------------------------------------------------------------
NoSession ==
    [userId |-> NoUser, tenantId |-> NoTenant, role |-> "none", issued |-> 0, expires |-> 0]

\* cookie.maxAge of the deployment: the store keeps the session until then
sessionTtl == IF deployment = "api" THEN ApiSessionMaxAgeDays ELSE SessionTtlDays

NewSession(uid, tid, role) ==
    [userId |-> uid, tenantId |-> tid, role |-> role, issued |-> now,
     expires |-> now + sessionTtl]

\* a session lookup that never looks at the expiry
SessionLiveNoExpiry(c) == sessions[c].userId # NoUser

\* the store returns a session only before its expiry
SessionLive(c) == sessions[c].userId # NoUser /\ now < sessions[c].expires

\* routes.ts isAuthenticated: !req.session.userId -> 401
isAuthenticated(c) == SessionLive(c)

\* ---- responses -----------------------------------------------------------
\* the last request and its response: route, client, :id or :userId, status, and
\* the ids of the rows in the body
\* and the tenantId and role fields of the request body
\* and, for the dashboard, the statistics in the body
NoStats ==
    [totalPolicies |-> 0, expiringSoon |-> 0, needsRenewal |-> 0, totalInvestments |-> 0,
     SEK |-> 0, INR |-> 0]

\* and what the document storage did for the request: "none" when it was not
\* called, else "ok" or "failed"
NoBlob == [del |-> "none", put |-> "none"]

NoResponse ==
    [op |-> "none", status |-> 0, client |-> 0, target |-> 0, rows |-> {}, tenantId |-> Absent,
     role |-> "none", creds |-> <<>>, stats |-> NoStats, premiums |-> <<>>,
     blob |-> NoBlob]

Response(op, status, c, target, rows, bodyTenant, bodyRole) ==
    [op |-> op, status |-> status, client |-> c, target |-> target, rows |-> rows,
     tenantId |-> bodyTenant, role |-> bodyRole, creds |-> <<>>, stats |-> NoStats,
     premiums |-> <<>>, blob |-> NoBlob]

Respond(op, status, c, target, rows) ==
    last' = Response(op, status, c, target, rows, Absent, "none")

RespondBody(op, status, c, target, rows, body) ==
    last' = Response(op, status, c, target, rows, body.tenantId, "none")

RespondRole(op, status, c, target, rows, role) ==
    last' = Response(op, status, c, target, rows, Absent, role)

\* a response to a request whose body carries credentials (email and password, or
\* current and new password)
RespondCreds(op, status, c, target, creds) ==
    last' = [Response(op, status, c, target, {}, Absent, "none") EXCEPT !.creds = creds]

\* ---- storage.ts: tenants and users ---------------------------------------
TenantIds == 1..Len(tenants)
UserIds == 1..Len(users)

getTenantByDomain(domain) == {t \in TenantIds : tenants[t] = domain}

getUserByEmail(email) == {u \in UserIds : users[u].email = email}

getUsersByTenant(tenantId) == {u \in UserIds : users[u].tenantId = tenantId}

createUser(email, passwordHash, tenantId, role, domain) ==
    Append(users, [email |-> email, passwordHash |-> passwordHash,
                   tenantId |-> tenantId, role |-> role, regDomain |-> domain])

\* where id = userId, without the tenant condition
updateUserRoleAnyTenant(userId, tenantId, role) ==
    LET hit == {u \in UserIds : u = userId}
    IN [table |-> [u \in UserIds |->
                    IF u \in hit THEN [users[u] EXCEPT !.role = role] ELSE users[u]],
        returning |-> hit]

\* update ... returning: the table after the statement and the rows it returned
updateUserRole(userId, tenantId, role) ==
    LET hit == {u \in UserIds : u = userId /\ users[u].tenantId = tenantId}
    IN [table |-> [u \in UserIds |->
                    IF u \in hit THEN [users[u] EXCEPT !.role = role] ELSE users[u]],
        returning |-> hit]

updateUserPassword(userId, passwordHash) ==
    [u \in UserIds |->
        IF u = userId THEN [users[u] EXCEPT !.passwordHash = passwordHash] ELSE users[u]]

\* an update that resets the role and leaves the tenant
removeUserFromTenantRoleOnly(userId, tenantId) ==
    [u \in UserIds |->
        IF u = userId /\ users[u].tenantId = tenantId
        THEN [users[u] EXCEPT !.role = "user"] ELSE users[u]]

removeUserFromTenant(userId, tenantId) ==
    [u \in UserIds |->
        IF u = userId /\ users[u].tenantId = tenantId
        THEN [users[u] EXCEPT !.tenantId = NoTenant, !.role = "user"] ELSE users[u]]

\* ---- storage.ts: policies and investments (tenant-scoped) ------------------
getPolicies(tenantId) == {id \in DOMAIN policies : policies[id].tenantId = tenantId}

getPolicy(id, tenantId) == {i \in DOMAIN policies : i = id /\ policies[i].tenantId = tenantId}

getInvestments(tenantId) == {id \in DOMAIN investments : investments[id].tenantId = tenantId}

\* an update that writes the value and the premium whether the body names them or
\* not: a column it does not name becomes NULL
SetFieldsWhole(row, updates) ==
    [f \in DOMAIN row |->
        IF f \in {"val", "premium"}
        THEN (IF f \in DOMAIN updates THEN updates[f] ELSE Absent)
        ELSE row[f]]

\* set of columns written by an update: a body field that is Absent is not written
SetFields(row, updates) ==
    [f \in DOMAIN row |->
        IF f \in DOMAIN updates /\ updates[f] # Absent THEN updates[f] ELSE row[f]]

updatePolicy(id, tenantId, updates) ==
    LET hit == {i \in DOMAIN policies : i = id /\ policies[i].tenantId = tenantId}
    IN [table |-> [i \in DOMAIN policies |->
                    IF i \in hit THEN SetFields(policies[i], updates) ELSE policies[i]],
        returning |-> hit]

deletePolicy(id, tenantId) ==
    [i \in {j \in DOMAIN policies : ~(j = id /\ policies[j].tenantId = tenantId)} |-> policies[i]]

updateInvestment(id, tenantId, updates) ==
    LET hit == {i \in DOMAIN investments : i = id /\ investments[i].tenantId = tenantId}
    IN [table |-> [i \in DOMAIN investments |->
                    IF i \in hit
                    THEN [SetFields(investments[i], updates) EXCEPT !.lastUpdated = now]
                    ELSE investments[i]],
        returning |-> hit]

deleteInvestment(id, tenantId) ==
    [i \in {j \in DOMAIN investments : ~(j = id /\ investments[j].tenantId = tenantId)} |->
        investments[i]]

\* the registration a client has in flight: where its handler stands (pc) and the
\* handler's locals; "idle" when the handler has answered or was never called
NoRegistration ==
    [pc |-> "idle", email |-> 0, password |-> 0, domain |-> 0, tenantId |-> NoTenant,
     isFirstUser |-> FALSE, createdTenant |-> FALSE]

\* the update a client has in flight: the handler has parsed the body and called
\* the storage, the UPDATE has not run yet (pc "update"); "done" when it has run.
\* others are the clients whose update was in flight when this one came in
NoUpdate ==
    [pc |-> "idle", table |-> "none", id |-> 0, tenantId |-> NoTenant, updates |-> <<>>,
     others |-> {}]

\* the admin request a client has in flight: isAdmin has let it through (pc
\* "admitted"), its handler has not run yet; "done" when it has answered. session
\* is req.session, loaded when the request came in
NoAdminCall ==
    [pc |-> "idle", op |-> "none", userId |-> NoUser, role |-> "none", session |-> NoSession]

Init ==
    /\ deployment \in {"server", "api", "simple"}
    /\ tenants = <<>>
    /\ users = <<>>
    /\ sessions = [c \in Clients |-> NoSession]
    /\ policies = <<>>
    /\ investments = <<>>
    /\ nextPolicyId = 1
    /\ nextInvestmentId = 1
    /\ now = 0
    /\ last = NoResponse
    /\ pending = [c \in Clients |-> NoRegistration]
    /\ blobs = <<>>
    /\ updating = [c \in Clients |-> NoUpdate]
    /\ adminCall = [c \in Clients |-> NoAdminCall]

\* ---- POST /api/auth/register ---------------------------------------------
\* the tenant a registration under domain ends up in, and the tenant table after it
RegisterTenantId(domain) ==
    IF getTenantByDomain(domain) = {} THEN Len(tenants) + 1
    ELSE CHOOSE t \in getTenantByDomain(domain) : TRUE

RegisterTenants(domain) ==
    IF getTenantByDomain(domain) = {} THEN Append(tenants, domain) ELSE tenants

\* admin for the first account of the whole store only
RegisterRoleFirstEver(domain) == IF users = <<>> THEN "admin" ELSE "user"

\* isFirstUser ? 'admin' : 'user'
RegisterRole(domain) ==
    IF getUsersByTenant(RegisterTenantId(domain)) = {} THEN "admin" ELSE "user"

\* the part of the three register handlers that is the same: validation, duplicate
\* check, tenant get-or-create, first-user decision, user insert
RegisterStore(op, c, email, password, domain, opensSession) ==
    IF PasswordLength(password) < MinPasswordLength \/ getUserByEmail(email) # {}
    THEN /\ Respond(op, 400, c, 0, {})
         /\ UNCHANGED <<tenants, users, sessions>>
    ELSE LET tid == RegisterTenantId(domain)
             role == RegisterRole(domain)
             uid == Len(users) + 1
             sess == IF opensSession THEN NewSession(uid, tid, role) ELSE sessions[c]
         IN /\ tenants' = RegisterTenants(domain)
            /\ users' = createUser(email, BcryptHash(password), tid, role, domain)
            /\ sessions' = [sessions EXCEPT ![c] = sess]
            /\ last' = Response(op, 201, c, uid, {}, Absent, "none")

Register(c, email, password, domain) ==
    /\ deployment = "server"
    /\ RegisterStore("register", c, email, password, domain, TRUE)
    /\ UNCHANGED <<deployment, adminCall, blobs, updating, pending, policies, investments, nextPolicyId, nextInvestmentId, now>>

ApiRegister(c, email, password, domain) ==
    /\ deployment = "api"
    /\ RegisterStore("register", c, email, password, domain, TRUE)
    /\ UNCHANGED <<deployment, adminCall, blobs, updating, pending, policies, investments, nextPolicyId, nextInvestmentId, now>>

SimpleRegister(c, email, password, domain) ==
    /\ deployment = "simple"
    /\ RegisterStore("register", c, email, password, domain, FALSE)
    /\ UNCHANGED <<deployment, adminCall, blobs, updating, pending, policies, investments, nextPolicyId, nextInvestmentId, now>>

\* ---- POST /api/auth/register, one await at a time ------------------------------
\* the handler of the three deployments, cut at its awaits: getUserByEmail,
\* getTenantByDomain, createTenant, getUsersByTenant, createUser

\* a users table without the unique constraint on email
EmailTakenNever(email) == FALSE

\* CONSTRAINT users_email_unique: an insert of a stored email fails
EmailTaken(email) == getUserByEmail(email) # {}

\* CONSTRAINT tenants_domain_unique: an insert of a stored domain fails
DomainTaken(domain) == getTenantByDomain(domain) # {}

\* registerSchema.parse, then getUserByEmail
RegisterCheck(c, email, password, domain) ==
    /\ pending[c].pc = "idle"
    /\ IF PasswordLength(password) < MinPasswordLength \/ getUserByEmail(email) # {}
       THEN /\ RespondCreds("register", 400, c, 0, <<email, password>>)
            /\ pending' = [pending EXCEPT ![c] = NoRegistration]
       ELSE /\ pending' = [pending EXCEPT ![c] =
                    [NoRegistration EXCEPT !.pc = "tenant", !.email = email,
                                           !.password = password, !.domain = domain]]
            /\ UNCHANGED last
    /\ UNCHANGED <<deployment, adminCall, blobs, updating, store, sessions, now>>

\* getTenantByDomain
RegisterGetTenant(c) ==
    /\ pending[c].pc = "tenant"
    /\ LET found == getTenantByDomain(pending[c].domain)
       IN pending' = [pending EXCEPT ![c] =
            IF found = {} THEN [@ EXCEPT !.pc = "create"]
            ELSE [@ EXCEPT !.pc = "count", !.tenantId = CHOOSE t \in found : TRUE]]
    /\ UNCHANGED <<deployment, adminCall, blobs, updating, store, sessions, now, last>>

\* createTenant: the insert throws when the domain was stored in the meantime, and
\* the handler answers 500
RegisterCreateTenant(c) ==
    /\ pending[c].pc = "create"
    /\ IF DomainTaken(pending[c].domain)
       THEN /\ RespondCreds("register", 500, c, 0, <<pending[c].email, pending[c].password>>)
            /\ pending' = [pending EXCEPT ![c] = [@ EXCEPT !.pc = "idle"]]
            /\ UNCHANGED tenants
       ELSE /\ tenants' = Append(tenants, pending[c].domain)
            /\ pending' = [pending EXCEPT ![c] =
                    [@ EXCEPT !.pc = "count", !.tenantId = Len(tenants) + 1,
                              !.createdTenant = TRUE]]
            /\ UNCHANGED last
    /\ UNCHANGED <<deployment, adminCall, blobs, updating, users, policies, investments, nextPolicyId, nextInvestmentId,
                   sessions, now>>

\* getUsersByTenant: isFirstUser
RegisterCount(c) ==
    /\ pending[c].pc = "count"
    /\ pending' = [pending EXCEPT ![c] =
            [@ EXCEPT !.pc = "insert",
                      !.isFirstUser = (getUsersByTenant(pending[c].tenantId) = {})]]
    /\ UNCHANGED <<deployment, adminCall, blobs, updating, store, sessions, now, last>>

\* createUser, then the session and the 201; the insert throws when the email was
\* stored in the meantime, and the handler answers 500
RegisterInsert(c) ==
    /\ pending[c].pc = "insert"
    /\ pending' = [pending EXCEPT ![c] = [@ EXCEPT !.pc = "idle"]]
    /\ IF EmailTaken(pending[c].email)
       THEN /\ RespondCreds("register", 500, c, 0, <<pending[c].email, pending[c].password>>)
            /\ UNCHANGED <<users, sessions>>
       ELSE LET uid == Len(users) + 1
                role == IF pending[c].isFirstUser THEN "admin" ELSE "user"
            IN /\ users' = createUser(pending[c].email, BcryptHash(pending[c].password),
                                      pending[c].tenantId, role, pending[c].domain)
               /\ sessions' = [sessions EXCEPT ![c] =
                        IF deployment = "simple" THEN @
                        ELSE NewSession(uid, pending[c].tenantId, role)]
               /\ RespondCreds("register", 201, c, uid, <<pending[c].email, pending[c].password>>)
    /\ UNCHANGED <<deployment, adminCall, blobs, updating, tenants, policies, investments, nextPolicyId, nextInvestmentId,
                   now>>

\* a login that tells an unknown email from a wrong password
LoginStoreRevealing(op, c, email, password, opensSession) ==
    IF getUserByEmail(email) = {}
    THEN /\ RespondCreds(op, 404, c, 0, <<email, password>>)
         /\ UNCHANGED sessions
    ELSE IF \E u \in getUserByEmail(email) : ~BcryptCompare(password, users[u].passwordHash)
    THEN /\ RespondCreds(op, 401, c, 0, <<email, password>>)
         /\ UNCHANGED sessions
    ELSE LET uid == CHOOSE u \in getUserByEmail(email) : TRUE
             sess == IF opensSession
                     THEN NewSession(uid, users[uid].tenantId, users[uid].role)
                     ELSE sessions[c]
         IN /\ sessions' = [sessions EXCEPT ![c] = sess]
            /\ RespondCreds(op, 200, c, uid, <<email, password>>)

\* ---- POST /api/auth/login ------------------------------------------------
LoginStore(op, c, email, password, opensSession) ==
    IF \/ getUserByEmail(email) = {}
       \/ \E u \in getUserByEmail(email) : ~BcryptCompare(password, users[u].passwordHash)
    THEN /\ RespondCreds(op, 401, c, 0, <<email, password>>)
         /\ UNCHANGED sessions
    ELSE LET uid == CHOOSE u \in getUserByEmail(email) : TRUE
             sess == IF opensSession
                     THEN NewSession(uid, users[uid].tenantId, users[uid].role)
                     ELSE sessions[c]
         IN /\ sessions' = [sessions EXCEPT ![c] = sess]
            /\ RespondCreds(op, 200, c, uid, <<email, password>>)

Login(c, email, password) ==
    /\ deployment = "server"
    /\ LoginStore("login", c, email, password, TRUE)
    /\ UNCHANGED <<deployment, adminCall, blobs, updating, pending, store, now>>

ApiLogin(c, email, password) ==
    /\ deployment = "api"
    /\ LoginStore("login", c, email, password, TRUE)
    /\ UNCHANGED <<deployment, adminCall, blobs, updating, pending, store, now>>

SimpleLogin(c, email, password) ==
    /\ deployment = "simple"
    /\ LoginStore("login", c, email, password, FALSE)
    /\ UNCHANGED <<deployment, adminCall, blobs, updating, pending, store, now>>

\* ---- POST /api/auth/logout: req.session.destroy ---------------------------
Logout(c) ==
    /\ deployment = "server"
    /\ sessions' = [sessions EXCEPT ![c] = NoSession]
    /\ Respond("logout", 200, c, 0, {})
    /\ UNCHANGED <<deployment, adminCall, blobs, updating, pending, store, now>>

ApiLogout(c) ==
    /\ deployment = "api"
    /\ sessions' = [sessions EXCEPT ![c] = NoSession]
    /\ Respond("logout", 200, c, 0, {})
    /\ UNCHANGED <<deployment, adminCall, blobs, updating, pending, store, now>>

\* ---- POST /api/auth/change-password -------------------------------------------
\* a change of password that never verifies the current one
ChangePasswordStoreUnverified(op, c, currentPassword, newPassword) ==
    IF ~SessionLive(c)
    THEN RespondCreds(op, 401, c, 0, <<currentPassword, newPassword>>) /\ UNCHANGED users
    ELSE IF PasswordLength(newPassword) < MinPasswordLength
    THEN RespondCreds(op, 400, c, 0, <<currentPassword, newPassword>>) /\ UNCHANGED users
    ELSE /\ users' = updateUserPassword(sessions[c].userId, BcryptHash(newPassword))
         /\ RespondCreds(op, 200, c, sessions[c].userId, <<currentPassword, newPassword>>)

\* session check, new password length, current password against the stored hash,
\* then the hash is rewritten
ChangePasswordStore(op, c, currentPassword, newPassword) ==
    IF ~SessionLive(c)
    THEN RespondCreds(op, 401, c, 0, <<currentPassword, newPassword>>) /\ UNCHANGED users
    ELSE IF PasswordLength(newPassword) < MinPasswordLength
    THEN RespondCreds(op, 400, c, 0, <<currentPassword, newPassword>>) /\ UNCHANGED users
    ELSE IF sessions[c].userId \notin UserIds
    THEN RespondCreds(op, 404, c, 0, <<currentPassword, newPassword>>) /\ UNCHANGED users
    ELSE IF ~BcryptCompare(currentPassword, users[sessions[c].userId].passwordHash)
    THEN /\ RespondCreds(op, 400, c, sessions[c].userId, <<currentPassword, newPassword>>)
         /\ UNCHANGED users
    ELSE /\ users' = updateUserPassword(sessions[c].userId, BcryptHash(newPassword))
         /\ RespondCreds(op, 200, c, sessions[c].userId, <<currentPassword, newPassword>>)

ChangePassword(c, currentPassword, newPassword) ==
    /\ deployment = "server"
    /\ ChangePasswordStore("changePassword", c, currentPassword, newPassword)
    /\ UNCHANGED <<deployment, adminCall, blobs, updating, pending, tenants, policies, investments, nextPolicyId, nextInvestmentId,
                   sessions, now>>

ApiChangePassword(c, currentPassword, newPassword) ==
    /\ deployment = "api"
    /\ ChangePasswordStore("changePassword", c, currentPassword, newPassword)
    /\ UNCHANGED <<deployment, adminCall, blobs, updating, pending, tenants, policies, investments, nextPolicyId, nextInvestmentId,
                   sessions, now>>

\* ---- routes.ts: policies --------------------------------------------------
\* api.policies.*.input: insertPolicySchema.omit({ tenantId: true }), zod strips the
\* keys the schema does not name
PolicyInput(body) == [body EXCEPT !.tenantId = Absent]

\* { tenantId: req.session.tenantId!, ...input }: a tenantId in the body would win
StampTenantBodyWins(input, tenantId) ==
    IF input.tenantId # Absent THEN input ELSE [input EXCEPT !.tenantId = tenantId]

\* { ...input, tenantId: req.session.tenantId! }: the later key wins
StampTenant(input, tenantId) == [input EXCEPT !.tenantId = tenantId]

\* an optional key of a body: Absent when the body does not carry it
Field(body, key) == IF key \in DOMAIN body THEN body[key] ELSE Absent

\* the row an insert makes of a policy: maturity_date and next_renewal_date are
\* nullable date columns (day numbers, Absent for NULL)
policyRow(policy, sessionTenant) ==
    [tenantId |-> policy.tenantId, val |-> policy.val,
     maturityDate |-> Field(policy, "maturityDate"),
     nextRenewalDate |-> Field(policy, "nextRenewalDate"),
     premium |-> Field(policy, "premium"),
     documentUrl |-> Field(policy, "documentUrl"),
     premiumFrequency |-> IF "premiumFrequency" \in DOMAIN policy
                          THEN policy.premiumFrequency ELSE Null,
     origin |-> sessionTenant]

\* insert ... returning; origin records the tenant of the session that created the row
createPolicy(policy, sessionTenant) ==
    (nextPolicyId :> policyRow(policy, sessionTenant)) @@ policies

\* a list that only an admin gets to see filled
GetPoliciesAdminOnly(c) ==
    /\ deployment = "server"
    /\ IF ~isAuthenticated(c) THEN Respond("getPolicies", 401, c, 0, {})
       ELSE IF sessions[c].role # "admin" THEN Respond("getPolicies", 200, c, 0, {})
       ELSE Respond("getPolicies", 200, c, 0, getPolicies(sessions[c].tenantId))
    /\ UNCHANGED <<deployment, adminCall, blobs, updating, pending, store, sessions, now>>

GetPolicies(c) ==
    /\ deployment = "server"
    /\ IF ~isAuthenticated(c) THEN Respond("getPolicies", 401, c, 0, {})
       ELSE Respond("getPolicies", 200, c, 0, getPolicies(sessions[c].tenantId))
    /\ UNCHANGED <<deployment, adminCall, blobs, updating, pending, store, sessions, now>>

GetPolicy(c, id) ==
    /\ deployment = "server"
    /\ IF ~isAuthenticated(c) THEN Respond("getPolicy", 401, c, id, {})
       ELSE IF getPolicy(id, sessions[c].tenantId) = {} THEN Respond("getPolicy", 404, c, id, {})
       ELSE Respond("getPolicy", 200, c, id, getPolicy(id, sessions[c].tenantId))
    /\ UNCHANGED <<deployment, adminCall, blobs, updating, pending, store, sessions, now>>

PostPolicy(c, body) ==
    /\ deployment = "server"
    /\ nextPolicyId <= MaxPolicies
    /\ IF ~isAuthenticated(c)
       THEN RespondBody("postPolicy", 401, c, 0, {}, body) /\ UNCHANGED <<policies, nextPolicyId>>
       ELSE IF PolicyInput(body).val \in {Invalid, Absent}
       THEN RespondBody("postPolicy", 400, c, 0, {}, body) /\ UNCHANGED <<policies, nextPolicyId>>
       ELSE IF sessions[c].tenantId = NoTenant  \* tenant_id NOT NULL
       THEN RespondBody("postPolicy", 500, c, 0, {}, body) /\ UNCHANGED <<policies, nextPolicyId>>
       ELSE /\ policies' = createPolicy(StampTenant(PolicyInput(body), sessions[c].tenantId),
                                        sessions[c].tenantId)
            /\ nextPolicyId' = nextPolicyId + 1
            /\ RespondBody("postPolicy", 201, c, nextPolicyId, {nextPolicyId}, body)
    /\ UNCHANGED <<deployment, adminCall, blobs, updating, pending, tenants, users, investments, nextInvestmentId, sessions, now>>

PutPolicy(c, id, body) ==
    /\ deployment = "server"
    /\ IF ~isAuthenticated(c)
       THEN RespondBody("putPolicy", 401, c, id, {}, body) /\ UNCHANGED policies
       ELSE IF PolicyInput(body).val = Invalid
       THEN RespondBody("putPolicy", 400, c, id, {}, body) /\ UNCHANGED policies
       ELSE IF PolicyInput(body).val = Absent  \* drizzle: "No values to set"
       THEN RespondBody("putPolicy", 500, c, id, {}, body) /\ UNCHANGED policies
       ELSE LET updated == updatePolicy(id, sessions[c].tenantId, PolicyInput(body))
            IN /\ policies' = updated.table
               /\ IF updated.returning = {} THEN RespondBody("putPolicy", 404, c, id, {}, body)
                  ELSE RespondBody("putPolicy", 200, c, id, updated.returning, body)
    /\ UNCHANGED <<deployment, adminCall, blobs, updating, pending, tenants, users, investments, nextPolicyId, nextInvestmentId,
                   sessions, now>>

DeletePolicy(c, id) ==
    /\ deployment = "server"
    /\ IF ~isAuthenticated(c)
       THEN Respond("deletePolicy", 401, c, id, {}) /\ UNCHANGED policies
       ELSE /\ policies' = deletePolicy(id, sessions[c].tenantId)
            /\ Respond("deletePolicy", 204, c, id, {})
    /\ UNCHANGED <<deployment, adminCall, blobs, updating, pending, tenants, users, investments, nextPolicyId, nextInvestmentId,
                   sessions, now>>

\* ---- routes.ts: investments -----------------------------------------------
\* api.investments.*.input: insertInvestmentSchema keeps tenantId
InvestmentInput(body) == body

\* the row an insert makes of an investment: val is current_value (numeric NOT NULL),
\* currency is text NOT NULL DEFAULT 'SEK'
investmentRow(investment, sessionTenant) ==
    [tenantId |-> investment.tenantId, val |-> investment.val,
     currency |-> IF "currency" \in DOMAIN investment THEN investment.currency
                  ELSE "SEK",
     lastUpdated |-> now, origin |-> sessionTenant]

createInvestment(investment, sessionTenant) ==
    (nextInvestmentId :> investmentRow(investment, sessionTenant)) @@ investments

GetInvestments(c) ==
    /\ deployment = "server"
    /\ IF ~isAuthenticated(c) THEN Respond("getInvestments", 401, c, 0, {})
       ELSE Respond("getInvestments", 200, c, 0, getInvestments(sessions[c].tenantId))
    /\ UNCHANGED <<deployment, adminCall, blobs, updating, pending, store, sessions, now>>

PostInvestment(c, body) ==
    /\ deployment = "server"
    /\ nextInvestmentId <= MaxInvestments
    /\ IF ~isAuthenticated(c)
       THEN RespondBody("postInvestment", 401, c, 0, {}, body) /\ UNCHANGED <<investments, nextInvestmentId>>
       ELSE IF \/ InvestmentInput(body).val \in {Invalid, Absent}
               \/ InvestmentInput(body).tenantId = Absent
       THEN RespondBody("postInvestment", 400, c, 0, {}, body) /\ UNCHANGED <<investments, nextInvestmentId>>
       ELSE IF sessions[c].tenantId = NoTenant  \* tenant_id NOT NULL
       THEN RespondBody("postInvestment", 500, c, 0, {}, body) /\ UNCHANGED <<investments, nextInvestmentId>>
       ELSE /\ investments' =
                 createInvestment(StampTenant(InvestmentInput(body), sessions[c].tenantId),
                                  sessions[c].tenantId)
            /\ nextInvestmentId' = nextInvestmentId + 1
            /\ RespondBody("postInvestment", 201, c, nextInvestmentId, {nextInvestmentId}, body)
    /\ UNCHANGED <<deployment, adminCall, blobs, updating, pending, tenants, users, policies, nextPolicyId, sessions, now>>

PutInvestment(c, id, body) ==
    /\ deployment = "server"
    /\ IF ~isAuthenticated(c)
       THEN RespondBody("putInvestment", 401, c, id, {}, body) /\ UNCHANGED investments
       ELSE IF InvestmentInput(body).val = Invalid
       THEN RespondBody("putInvestment", 400, c, id, {}, body) /\ UNCHANGED investments
       ELSE LET updated == updateInvestment(id, sessions[c].tenantId, InvestmentInput(body))
            IN /\ investments' = updated.table
               /\ IF updated.returning = {} THEN RespondBody("putInvestment", 404, c, id, {}, body)
                  ELSE RespondBody("putInvestment", 200, c, id, updated.returning, body)
    /\ UNCHANGED <<deployment, adminCall, blobs, updating, pending, tenants, users, policies, nextPolicyId, nextInvestmentId,
                   sessions, now>>

DeleteInvestment(c, id) ==
    /\ deployment = "server"
    /\ IF ~isAuthenticated(c)
       THEN Respond("deleteInvestment", 401, c, id, {}) /\ UNCHANGED investments
       ELSE /\ investments' = deleteInvestment(id, sessions[c].tenantId)
            /\ Respond("deleteInvestment", 204, c, id, {})
    /\ UNCHANGED <<deployment, adminCall, blobs, updating, pending, tenants, users, policies, nextPolicyId, nextInvestmentId,
                   sessions, now>>

\* ---- routes.ts: admin user management --------------------------------------
\* the role the session was opened with
isAdminSession(c) == sessions[c].role = "admin"

\* isAdmin reads the stored role at the time of the request
isAdmin(c) == sessions[c].userId \in UserIds /\ users[sessions[c].userId].role = "admin"

\* the guard with the role test inverted
\* no check of a self-demotion at all
SelfDemotionNever(c, userId, role) == FALSE

SelfDemotionToAdmin(c, userId, role) == userId = sessions[c].userId /\ role = "admin"

\* userId === req.session.userId && role === 'user'
SelfDemotion(c, userId, role) == userId = sessions[c].userId /\ role = "user"

\* the guard with the comparison inverted
SelfRemovalOfOther(c, userId) == userId # sessions[c].userId

\* userId === req.session.userId
SelfRemoval(c, userId) == userId = sessions[c].userId

AdminGetUsers(c) ==
    /\ deployment = "server"
    /\ IF ~isAuthenticated(c) THEN Respond("adminGetUsers", 401, c, 0, {})
       ELSE IF ~isAdmin(c) THEN Respond("adminGetUsers", 403, c, 0, {})
       ELSE Respond("adminGetUsers", 200, c, 0, getUsersByTenant(sessions[c].tenantId))
    /\ UNCHANGED <<deployment, adminCall, blobs, updating, pending, store, sessions, now>>

AdminPutRole(c, userId, role) ==
    /\ deployment = "server"
    /\ IF ~isAuthenticated(c)
       THEN RespondRole("adminPutRole", 401, c, userId, {}, role) /\ UNCHANGED users
       ELSE IF ~isAdmin(c)
       THEN RespondRole("adminPutRole", 403, c, userId, {}, role) /\ UNCHANGED users
       ELSE IF role \notin {"admin", "user"}
       THEN RespondRole("adminPutRole", 400, c, userId, {}, role) /\ UNCHANGED users
       ELSE IF SelfDemotion(c, userId, role)
       THEN RespondRole("adminPutRole", 400, c, userId, {}, role) /\ UNCHANGED users
       ELSE LET updated == updateUserRole(userId, sessions[c].tenantId, role)
            IN /\ users' = updated.table
               /\ IF updated.returning = {} THEN RespondRole("adminPutRole", 404, c, userId, {}, role)
                  ELSE RespondRole("adminPutRole", 200, c, userId, updated.returning, role)
    /\ UNCHANGED <<deployment, adminCall, blobs, updating, pending, tenants, policies, investments, nextPolicyId, nextInvestmentId,
                   sessions, now>>

AdminDeleteUser(c, userId) ==
    /\ deployment = "server"
    /\ IF ~isAuthenticated(c)
       THEN Respond("adminDeleteUser", 401, c, userId, {}) /\ UNCHANGED users
       ELSE IF ~isAdmin(c)
       THEN Respond("adminDeleteUser", 403, c, userId, {}) /\ UNCHANGED users
       ELSE IF SelfRemoval(c, userId)
       THEN Respond("adminDeleteUser", 400, c, userId, {}) /\ UNCHANGED users
       ELSE /\ users' = removeUserFromTenant(userId, sessions[c].tenantId)
            /\ Respond("adminDeleteUser", 204, c, userId, {})
    /\ UNCHANGED <<deployment, adminCall, blobs, updating, pending, tenants, policies, investments, nextPolicyId, nextInvestmentId,
                   sessions, now>>

AdminResetPassword(c, userId, newPassword) ==
    /\ deployment = "server"
    /\ IF ~isAuthenticated(c)
       THEN Respond("adminResetPassword", 401, c, userId, {}) /\ UNCHANGED users
       ELSE IF ~isAdmin(c)
       THEN Respond("adminResetPassword", 403, c, userId, {}) /\ UNCHANGED users
       ELSE IF PasswordLength(newPassword) < MinPasswordLength
       THEN Respond("adminResetPassword", 400, c, userId, {}) /\ UNCHANGED users
       ELSE IF userId \notin UserIds \/ users[userId].tenantId # sessions[c].tenantId
       THEN Respond("adminResetPassword", 404, c, userId, {}) /\ UNCHANGED users
       ELSE /\ users' = updateUserPassword(userId, BcryptHash(newPassword))
            /\ Respond("adminResetPassword", 200, c, userId, {})
    /\ UNCHANGED <<deployment, adminCall, blobs, updating, pending, tenants, policies, investments, nextPolicyId, nextInvestmentId,
                   sessions, now>>

\* ---- routes.ts: PUT policies and investments, one await at a time -----------------
InFlight == {c \in Clients : updating[c].pc = "update"}

\* the middleware and input.parse(req.body), up to the call of the storage
PutParse(op, table, c, id, input) ==
    /\ deployment = "server"
    /\ updating[c].pc # "update"
    /\ IF ~isAuthenticated(c)
       THEN RespondBody(op, 401, c, id, {}, input) /\ UNCHANGED updating
       ELSE IF input.val = Invalid
       THEN RespondBody(op, 400, c, id, {}, input) /\ UNCHANGED updating
       ELSE /\ updating' = [updating EXCEPT ![c] =
                               [pc |-> "update", table |-> table, id |-> id,
                                tenantId |-> sessions[c].tenantId, updates |-> input,
                                others |-> InFlight]]
            /\ UNCHANGED last
    /\ UNCHANGED <<deployment, adminCall, blobs, pending, store, sessions, now>>

PutPolicyParse(c, id, body) == PutParse("putPolicy", "policies", c, id, PolicyInput(body))

PutInvestmentParse(c, id, body) ==
    PutParse("putInvestment", "investments", c, id, InvestmentInput(body))

\* db.update(policies).set(updates).where(id, tenantId).returning(): one statement;
\* then 404 or the row. An update that names no column is drizzle's "No values to set"
PutPolicyUpdate(c) ==
    /\ updating[c].pc = "update" /\ updating[c].table = "policies"
    /\ LET u == updating[c]
           named == {f \in DOMAIN u.updates : u.updates[f] # Absent}
           updated == updatePolicy(u.id, u.tenantId, u.updates)
       IN IF named = {}
          THEN RespondBody("putPolicy", 500, c, u.id, {}, u.updates) /\ UNCHANGED policies
          ELSE /\ policies' = updated.table
               /\ IF updated.returning = {}
                  THEN RespondBody("putPolicy", 404, c, u.id, {}, u.updates)
                  ELSE RespondBody("putPolicy", 200, c, u.id, updated.returning, u.updates)
    /\ updating' = [updating EXCEPT ![c].pc = "done"]
    /\ UNCHANGED <<deployment, adminCall, blobs, pending, tenants, users, investments, nextPolicyId,
                   nextInvestmentId, sessions, now>>

\* the same for investments; updateInvestment adds lastUpdated, so there is always
\* a column to set
PutInvestmentUpdate(c) ==
    /\ updating[c].pc = "update" /\ updating[c].table = "investments"
    /\ LET u == updating[c]
           updated == updateInvestment(u.id, u.tenantId, u.updates)
       IN /\ investments' = updated.table
          /\ IF updated.returning = {}
             THEN RespondBody("putInvestment", 404, c, u.id, {}, u.updates)
             ELSE RespondBody("putInvestment", 200, c, u.id, updated.returning, u.updates)
    /\ updating' = [updating EXCEPT ![c].pc = "done"]
    /\ UNCHANGED <<deployment, adminCall, blobs, pending, tenants, users, policies, nextPolicyId,
                   nextInvestmentId, sessions, now>>

\* ---- routes.ts: admin role and remove requests, one await at a time ------------
\* the /api middleware, then isAdmin: await storage.getUser, 403 unless role admin
AdminAdmit(c, op, userId, role) ==
    /\ deployment = "server"
    /\ adminCall[c].pc # "admitted"
    /\ IF ~isAuthenticated(c)
       THEN RespondRole(op, 401, c, userId, {}, role) /\ UNCHANGED adminCall
       ELSE IF ~isAdmin(c)
       THEN RespondRole(op, 403, c, userId, {}, role) /\ UNCHANGED adminCall
       ELSE /\ adminCall' = [adminCall EXCEPT ![c] =
                               [pc |-> "admitted", op |-> op, userId |-> userId, role |-> role,
                                session |-> sessions[c]]]
            /\ UNCHANGED last
    /\ UNCHANGED <<deployment, blobs, updating, pending, store, sessions, now>>

\* PUT /api/admin/users/:userId/role after isAdmin: role check, self-demotion check,
\* updateUserRole
AdminPutRoleHandler(c) ==
    /\ adminCall[c].pc = "admitted" /\ adminCall[c].op = "adminPutRole"
    /\ LET userId == adminCall[c].userId
           role == adminCall[c].role
           session == adminCall[c].session
           updated == updateUserRole(userId, session.tenantId, role)
       IN IF role \notin {"admin", "user"} \/ (userId = session.userId /\ role = "user")
          THEN RespondRole("adminPutRole", 400, c, userId, {}, role) /\ UNCHANGED users
          ELSE /\ users' = updated.table
               /\ IF updated.returning = {}
                  THEN RespondRole("adminPutRole", 404, c, userId, {}, role)
                  ELSE RespondRole("adminPutRole", 200, c, userId, updated.returning, role)
    /\ adminCall' = [adminCall EXCEPT ![c].pc = "done"]
    /\ UNCHANGED <<deployment, blobs, updating, pending, tenants, policies, investments,
                   nextPolicyId, nextInvestmentId, sessions, now>>

\* DELETE /api/admin/users/:userId after isAdmin: self-removal check,
\* removeUserFromTenant
AdminDeleteUserHandler(c) ==
    /\ adminCall[c].pc = "admitted" /\ adminCall[c].op = "adminDeleteUser"
    /\ LET userId == adminCall[c].userId
           session == adminCall[c].session
       IN IF userId = session.userId
          THEN Respond("adminDeleteUser", 400, c, userId, {}) /\ UNCHANGED users
          ELSE /\ users' = removeUserFromTenant(userId, session.tenantId)
               /\ Respond("adminDeleteUser", 204, c, userId, {})
    /\ adminCall' = [adminCall EXCEPT ![c].pc = "done"]
    /\ UNCHANGED <<deployment, blobs, updating, pending, tenants, policies, investments,
                   nextPolicyId, nextInvestmentId, sessions, now>>

\* ---- api/index.ts: its own DatabaseStorage, keyed by id only ----------------
apiGetPolicy(id) == {i \in DOMAIN policies : i = id}

apiUpdatePolicy(id, updates) ==
    [i \in DOMAIN policies |-> IF i = id THEN SetFields(policies[i], updates) ELSE policies[i]]

apiDeletePolicy(id) == [i \in DOMAIN policies \ {id} |-> policies[i]]

apiGetInvestment(id) == {i \in DOMAIN investments : i = id}

apiUpdateInvestment(id, updates) ==
    [i \in DOMAIN investments |->
        IF i = id THEN SetFields(investments[i], updates) ELSE investments[i]]

apiDeleteInvestment(id) == [i \in DOMAIN investments \ {id} |-> investments[i]]

\* if (!req.session.user) -> 401
apiAuthenticated(c) == SessionLive(c)

\* ---- api/index.ts: policies ------------------------------------------------
ApiGetPolicies(c) ==
    /\ deployment = "api"
    /\ IF ~apiAuthenticated(c) THEN Respond("getPolicies", 401, c, 0, {})
       ELSE Respond("getPolicies", 200, c, 0, getPolicies(sessions[c].tenantId))
    /\ UNCHANGED <<deployment, adminCall, blobs, updating, pending, store, sessions, now>>

ApiGetPolicy(c, id) ==
    /\ deployment = "api"
    /\ IF ~apiAuthenticated(c) THEN Respond("getPolicy", 401, c, id, {})
       ELSE IF \/ apiGetPolicy(id) = {}
               \/ \E i \in apiGetPolicy(id) : policies[i].tenantId # sessions[c].tenantId
       THEN Respond("getPolicy", 404, c, id, {})
       ELSE Respond("getPolicy", 200, c, id, apiGetPolicy(id))
    /\ UNCHANGED <<deployment, adminCall, blobs, updating, pending, store, sessions, now>>

\* ---- api/index.ts: document storage ------------------------------------------
\* upload.single('document'): the request carries a file
hasFile(body) == "file" \in DOMAIN body

\* put(blobPath, req.file.buffer) / fs.writeFileSync: a new file under a fresh url
\* (timestamp_randomId), or an error when the storage fails
putBlob(files, file, ok) ==
    IF ~file THEN [blobs |-> files, url |-> Absent, failed |-> FALSE, put |-> "none"]
    ELSE IF ok
    THEN [blobs |-> Append(files, TRUE), url |-> Len(files) + 1, failed |-> FALSE, put |-> "ok"]
    ELSE [blobs |-> files, url |-> Absent, failed |-> TRUE, put |-> "failed"]

\* a deletion that lets the storage error out to its caller
deleteBlobFileThrowing(files, documentUrl, ok) ==
    IF documentUrl = Absent THEN [blobs |-> files, threw |-> FALSE, del |-> "none"]
    ELSE IF ok
    THEN [blobs |-> [files EXCEPT ![documentUrl] = FALSE], threw |-> FALSE, del |-> "ok"]
    ELSE [blobs |-> files, threw |-> TRUE, del |-> "failed"]

\* deleteBlobFile: if (!documentUrl) return; try { del(url) / fs.unlinkSync }
\* catch { log, "Don't throw error" }
deleteBlobFile(files, documentUrl, ok) ==
    IF documentUrl = Absent THEN [blobs |-> files, threw |-> FALSE, del |-> "none"]
    ELSE IF ok
    THEN [blobs |-> [files EXCEPT ![documentUrl] = FALSE], threw |-> FALSE, del |-> "ok"]
    ELSE [blobs |-> files, threw |-> FALSE, del |-> "failed"]

\* what the storage can do with a call: succeed or fail; nothing to choose when the
\* request does not reach it
BlobOutcomes(called) == IF called THEN BOOLEAN ELSE {TRUE}

\* the response of a policy route, with what the document storage did
RespondBlob(op, status, c, target, rows, body, del, put) ==
    last' = [Response(op, status, c, target, rows, body.tenantId, "none")
                EXCEPT !.blob = [del |-> del, put |-> put]]

\* { ...req.body, tenantId: req.session.user.tenantId, documentUrl }: no schema, the
\* columns reject what they cannot hold; a file is uploaded before the insert
ApiPostPolicy(c, body) ==
    /\ deployment = "api"
    /\ nextPolicyId <= MaxPolicies
    /\ hasFile(body) => Len(blobs) < MaxBlobs
    /\ \E putOk \in BlobOutcomes(hasFile(body)) :
         LET up == putBlob(blobs, hasFile(body), putOk)
         IN IF ~apiAuthenticated(c)
            THEN /\ RespondBody("postPolicy", 401, c, 0, {}, body)
                 /\ UNCHANGED <<policies, nextPolicyId, blobs>>
            ELSE IF up.failed
            THEN /\ RespondBlob("postPolicy", 500, c, 0, {}, body, "none", up.put)
                 /\ UNCHANGED <<policies, nextPolicyId, blobs>>
            ELSE IF body.val \in {Invalid, Absent} \/ sessions[c].tenantId = NoTenant
            THEN /\ RespondBlob("postPolicy", 500, c, 0, {}, body, "none", up.put)
                 /\ blobs' = up.blobs
                 /\ UNCHANGED <<policies, nextPolicyId>>
            ELSE /\ policies' =
                      createPolicy([documentUrl |-> up.url]
                                       @@ StampTenant(body, sessions[c].tenantId),
                                   sessions[c].tenantId)
                 /\ nextPolicyId' = nextPolicyId + 1
                 /\ blobs' = up.blobs
                 /\ RespondBlob("postPolicy", 201, c, nextPolicyId, {nextPolicyId}, body,
                                "none", up.put)
    /\ UNCHANGED <<deployment, adminCall, updating, pending, tenants, users, investments, nextInvestmentId, sessions, now>>

\* { ...req.body, documentUrl }: every key of the body reaches set(); with a new file
\* the old document is deleted first (its failure ignored), then the new one uploaded
ApiPutPolicy(c, id, body) ==
    /\ deployment = "api"
    /\ hasFile(body) => Len(blobs) < MaxBlobs
    /\ \E delOk, putOk \in BlobOutcomes(hasFile(body)) :
         IF ~apiAuthenticated(c)
         THEN RespondBody("putPolicy", 401, c, id, {}, body) /\ UNCHANGED <<policies, blobs>>
         ELSE IF \/ apiGetPolicy(id) = {}
                 \/ \E i \in apiGetPolicy(id) : policies[i].tenantId # sessions[c].tenantId
         THEN RespondBody("putPolicy", 404, c, id, {}, body) /\ UNCHANGED <<policies, blobs>>
         ELSE LET old == policies[id].documentUrl
                  gone == IF hasFile(body) THEN deleteBlobFile(blobs, old, delOk)
                          ELSE deleteBlobFile(blobs, Absent, delOk)
                  up == putBlob(gone.blobs, hasFile(body), putOk)
                  documentUrl == IF hasFile(body) THEN up.url ELSE old
              IN IF up.failed
                 THEN /\ RespondBlob("putPolicy", 500, c, id, {}, body, gone.del, up.put)
                      /\ blobs' = gone.blobs
                      /\ UNCHANGED policies
                 ELSE IF body.val = Invalid
                 THEN /\ RespondBlob("putPolicy", 500, c, id, {}, body, gone.del, up.put)
                      /\ blobs' = up.blobs
                      /\ UNCHANGED policies
                 ELSE /\ policies' =
                           apiUpdatePolicy(id, [val |-> body.val, tenantId |-> body.tenantId,
                                                documentUrl |-> documentUrl])
                      /\ blobs' = up.blobs
                      /\ RespondBlob("putPolicy", 200, c, id, {id}, body, gone.del, up.put)
    /\ UNCHANGED <<deployment, adminCall, updating, pending, tenants, users, investments, nextPolicyId, nextInvestmentId,
                   sessions, now>>

\* the document of the policy is deleted first, then the row
ApiDeletePolicy(c, id) ==
    /\ deployment = "api"
    /\ \E delOk \in BlobOutcomes(id \in DOMAIN policies /\ policies[id].documentUrl # Absent) :
         IF ~apiAuthenticated(c)
         THEN Respond("deletePolicy", 401, c, id, {}) /\ UNCHANGED <<policies, blobs>>
         ELSE IF \/ apiGetPolicy(id) = {}
                 \/ \E i \in apiGetPolicy(id) : policies[i].tenantId # sessions[c].tenantId
         THEN Respond("deletePolicy", 404, c, id, {}) /\ UNCHANGED <<policies, blobs>>
         ELSE LET gone == deleteBlobFile(blobs, policies[id].documentUrl, delOk)
              IN IF gone.threw
                 THEN /\ last' = [Response("deletePolicy", 500, c, id, {}, Absent, "none")
                                     EXCEPT !.blob = [del |-> gone.del, put |-> "none"]]
                      /\ UNCHANGED <<policies, blobs>>
                 ELSE /\ policies' = apiDeletePolicy(id)
                      /\ blobs' = gone.blobs
                      /\ last' = [Response("deletePolicy", 204, c, id, {}, Absent, "none")
                                     EXCEPT !.blob = [del |-> gone.del, put |-> "none"]]
    /\ UNCHANGED <<deployment, adminCall, updating, pending, tenants, users, investments, nextPolicyId, nextInvestmentId,
                   sessions, now>>

\* ---- api/index.ts: investments ----------------------------------------------
ApiGetInvestments(c) ==
    /\ deployment = "api"
    /\ IF ~apiAuthenticated(c) THEN Respond("getInvestments", 401, c, 0, {})
       ELSE Respond("getInvestments", 200, c, 0, getInvestments(sessions[c].tenantId))
    /\ UNCHANGED <<deployment, adminCall, blobs, updating, pending, store, sessions, now>>

ApiGetInvestment(c, id) ==
    /\ deployment = "api"
    /\ IF ~apiAuthenticated(c) THEN Respond("getInvestment", 401, c, id, {})
       ELSE IF \/ apiGetInvestment(id) = {}
               \/ \E i \in apiGetInvestment(id) : investments[i].tenantId # sessions[c].tenantId
       THEN Respond("getInvestment", 404, c, id, {})
       ELSE Respond("getInvestment", 200, c, id, apiGetInvestment(id))
    /\ UNCHANGED <<deployment, adminCall, blobs, updating, pending, store, sessions, now>>

ApiPostInvestment(c, body) ==
    /\ deployment = "api"
    /\ nextInvestmentId <= MaxInvestments
    /\ IF ~apiAuthenticated(c)
       THEN RespondBody("postInvestment", 401, c, 0, {}, body) /\ UNCHANGED <<investments, nextInvestmentId>>
       ELSE IF body.val \in {Invalid, Absent} \/ sessions[c].tenantId = NoTenant
       THEN RespondBody("postInvestment", 500, c, 0, {}, body) /\ UNCHANGED <<investments, nextInvestmentId>>
       ELSE /\ investments' = createInvestment(StampTenant(body, sessions[c].tenantId),
                                                sessions[c].tenantId)
            /\ nextInvestmentId' = nextInvestmentId + 1
            /\ RespondBody("postInvestment", 201, c, nextInvestmentId, {nextInvestmentId}, body)
    /\ UNCHANGED <<deployment, adminCall, blobs, updating, pending, tenants, users, policies, nextPolicyId, sessions, now>>

\* sanitizeDateFields(req.body) goes to set() as it is; an empty body is
\* drizzle's "No values to set"
ApiPutInvestment(c, id, body) ==
    /\ deployment = "api"
    /\ IF ~apiAuthenticated(c)
       THEN RespondBody("putInvestment", 401, c, id, {}, body) /\ UNCHANGED investments
       ELSE IF \/ apiGetInvestment(id) = {}
               \/ \E i \in apiGetInvestment(id) : investments[i].tenantId # sessions[c].tenantId
       THEN RespondBody("putInvestment", 404, c, id, {}, body) /\ UNCHANGED investments
       ELSE IF body.val = Invalid \/ (body.val = Absent /\ body.tenantId = Absent)
       THEN RespondBody("putInvestment", 500, c, id, {}, body) /\ UNCHANGED investments
       ELSE /\ investments' =
                 apiUpdateInvestment(id, [val |-> body.val, tenantId |-> body.tenantId])
            /\ RespondBody("putInvestment", 200, c, id, {id}, body)
    /\ UNCHANGED <<deployment, adminCall, blobs, updating, pending, tenants, users, policies, nextPolicyId, nextInvestmentId,
                   sessions, now>>

ApiDeleteInvestment(c, id) ==
    /\ deployment = "api"
    /\ IF ~apiAuthenticated(c)
       THEN Respond("deleteInvestment", 401, c, id, {}) /\ UNCHANGED investments
       ELSE IF \/ apiGetInvestment(id) = {}
               \/ \E i \in apiGetInvestment(id) : investments[i].tenantId # sessions[c].tenantId
       THEN Respond("deleteInvestment", 404, c, id, {}) /\ UNCHANGED investments
       ELSE /\ investments' = apiDeleteInvestment(id)
            /\ Respond("deleteInvestment", 204, c, id, {})
    /\ UNCHANGED <<deployment, adminCall, blobs, updating, pending, tenants, users, policies, nextPolicyId, nextInvestmentId,
                   sessions, now>>

\* ---- api/index.ts: admin routes are mock responses, no check, no store call --
ApiAdminGetUsers(c) ==
    /\ deployment = "api"
    /\ Respond("adminGetUsers", 200, c, 0, {})
    /\ UNCHANGED <<deployment, adminCall, blobs, updating, pending, store, sessions, now>>

ApiAdminPutRole(c, userId, role) ==
    /\ deployment = "api"
    /\ RespondRole("adminPutRole", 200, c, userId, {}, role)
    /\ UNCHANGED <<deployment, adminCall, blobs, updating, pending, store, sessions, now>>

ApiAdminDeleteUser(c, userId) ==
    /\ deployment = "api"
    /\ Respond("adminDeleteUser", 200, c, userId, {})
    /\ UNCHANGED <<deployment, adminCall, blobs, updating, pending, store, sessions, now>>

ApiAdminResetPassword(c, userId, newPassword) ==
    /\ deployment = "api"
    /\ Respond("adminResetPassword", 200, c, userId, {})
    /\ UNCHANGED <<deployment, adminCall, blobs, updating, pending, store, sessions, now>>

\* ---- dashboard statistics -----------------------------------------------------
\* Dates are day numbers; a date column holds midnight of its day and the clock is
\* somewhere within day now, so "date > now" is "day > now" and
\* "date <= now + 60 days" is "day <= now + 60".

\* maturity within the window, today included
isExpiringSoonFromToday(p) ==
    /\ p.maturityDate # Absent
    /\ p.maturityDate <= now + StatsWindowDays /\ p.maturityDate >= now

\* storage.ts: if (p.maturityDate) ... maturity <= sixtyDaysFromNow && maturity > now
isExpiringSoon(p) ==
    /\ p.maturityDate # Absent
    /\ p.maturityDate <= now + StatsWindowDays /\ p.maturityDate > now

\* storage.ts: if (p.nextRenewalDate) ... renewal <= sixtyDaysFromNow
isNeedsRenewal(p) ==
    /\ p.nextRenewalDate # Absent
    /\ p.nextRenewalDate <= now + StatsWindowDays

\* a filter that lets every currency through
filterAnyCurrency(ids, currency) == ids

\* investmentsList.filter(inv => inv.currency === currency)
filterByCurrency(ids, currency) == {i \in ids : investments[i].currency = currency}

\* .reduce((sum, inv) => sum + Number(inv.currentValue), 0)
RECURSIVE SumCurrentValue(_)
SumCurrentValue(ids) ==
    IF ids = {} THEN 0
    ELSE LET i == CHOOSE j \in ids : TRUE
         IN investments[i].val + SumCurrentValue(ids \ {i})

getDashboardStats(tenantId) ==
    [totalPolicies |-> Cardinality(getPolicies(tenantId)),
     expiringSoon |-> Cardinality({id \in getPolicies(tenantId) : isExpiringSoon(policies[id])}),
     needsRenewal |-> Cardinality({id \in getPolicies(tenantId) : isNeedsRenewal(policies[id])}),
     totalInvestments |-> Cardinality(getInvestments(tenantId)),
     SEK |-> SumCurrentValue(filterByCurrency(getInvestments(tenantId), "SEK")),
     INR |-> SumCurrentValue(filterByCurrency(getInvestments(tenantId), "INR"))]

\* routes.ts GET /api/dashboard/stats, behind the /api authentication middleware
GetStats(c) ==
    /\ deployment = "server"
    /\ IF ~isAuthenticated(c) THEN Respond("getStats", 401, c, 0, {})
       ELSE last' = [Response("getStats", 200, c, 0, {}, Absent, "none")
                        EXCEPT !.stats = getDashboardStats(sessions[c].tenantId)]
    /\ UNCHANGED <<deployment, adminCall, blobs, updating, pending, store, sessions, now>>

\* api/index.ts: Math.ceil((maturityDate.getTime() - now.getTime()) / day); the
\* clock is within day now, so the quotient rounds up to maturityDate - now
daysToMaturity(p) == p.maturityDate - now

\* api/index.ts: daysToMaturity < 0, or else daysToMaturity <= 30
apiNeedsRenewal(p) ==
    /\ p.maturityDate # Absent
    /\ (daysToMaturity(p) < 0 \/ daysToMaturity(p) <= ApiRenewalDays)

\* api/index.ts: neither of those, and daysToMaturity <= 60
apiExpiringSoon(p) ==
    /\ p.maturityDate # Absent
    /\ ~(daysToMaturity(p) < 0 \/ daysToMaturity(p) <= ApiRenewalDays)
    /\ daysToMaturity(p) <= ApiExpiringDays

apiDashboardStats(tenantId) ==
    [totalPolicies |-> Cardinality(getPolicies(tenantId)),
     expiringSoon |-> Cardinality({id \in getPolicies(tenantId) : apiExpiringSoon(policies[id])}),
     needsRenewal |-> Cardinality({id \in getPolicies(tenantId) : apiNeedsRenewal(policies[id])}),
     totalInvestments |-> Cardinality(getInvestments(tenantId)),
     SEK |-> SumCurrentValue(filterByCurrency(getInvestments(tenantId), "SEK")),
     INR |-> SumCurrentValue(filterByCurrency(getInvestments(tenantId), "INR"))]

ApiGetStats(c) ==
    /\ deployment = "api"
    /\ IF ~apiAuthenticated(c) THEN Respond("getStats", 401, c, 0, {})
       ELSE last' = [Response("getStats", 200, c, 0, {}, Absent, "none")
                        EXCEPT !.stats = apiDashboardStats(sessions[c].tenantId)]
    /\ UNCHANGED <<deployment, adminCall, blobs, updating, pending, store, sessions, now>>

\* ---- dashboard analytics ------------------------------------------------------
\* Premiums are whole multiples of MonthsPerYear, so that a twelfth is a whole number.

\* a row that takes every premium for a monthly one
premiumRowMonthly(pol) ==
    [monthlyPremium |-> pol.premium, yearlyPremium |-> pol.premium * MonthsPerYear]

\* routes.ts premiumsByProvider: parseFloat(pol.premium || '0') divided by 12 or 1,
\* multiplied by 1 or 12, by pol.premiumFrequency === 'yearly'; a NULL premium is 0
premiumRow(pol) ==
    [monthlyPremium |->
        pol.premium \div (IF pol.premiumFrequency = "yearly" THEN MonthsPerYear ELSE 1),
     yearlyPremium |->
        pol.premium * (IF pol.premiumFrequency = "yearly" THEN 1 ELSE MonthsPerYear)]

\* policies.map(...): one row for each policy the tenant query returns
premiumsByProvider(tenantId) ==
    [id \in getPolicies(tenantId) |-> premiumRow(policies[id])]

\* routes.ts GET /api/dashboard/analytics: its own !req.session.userId check
GetAnalytics(c) ==
    /\ deployment = "server"
    /\ IF ~isAuthenticated(c) THEN Respond("getAnalytics", 401, c, 0, {})
       ELSE last' = [Response("getAnalytics", 200, c, 0, {}, Absent, "none")
                        EXCEPT !.premiums = premiumsByProvider(sessions[c].tenantId)]
    /\ UNCHANGED <<deployment, adminCall, blobs, updating, pending, store, sessions, now>>

\* ---- time ---------------------------------------------------------------------
Tick ==
    /\ now < MaxTime
    /\ now' = now + 1
    /\ UNCHANGED <<deployment, adminCall, blobs, updating, pending, store, sessions, last>>

\* ---- specification --------------------------------------------------------------
\* Emails and domains are labels and a fresh one is as good as another: a request
\* names one that is already stored or the least one that is not; ids likewise
Min(a, b) == IF a < b THEN a ELSE b
EmailInputs == 1..Min(Len(users) + 1, MaxEmails)
DomainInputs == 1..Min(Len(tenants) + 1, MaxDomains)
UserIdInputs == 1..Min(Len(users) + 1, MaxEmails)
PolicyIdInputs == 1..MaxPolicies
InvestmentIdInputs == 1..MaxInvestments

NextServer ==
    \/ \E c \in Clients, e \in EmailInputs, p \in Passwords, d \in DomainInputs : Register(c, e, p, d)
    \/ \E c \in Clients, e \in EmailInputs, p \in Passwords : Login(c, e, p)
    \/ \E c \in Clients : Logout(c)
    \/ \E c \in Clients : GetPolicies(c)
    \/ \E c \in Clients, id \in PolicyIdInputs : GetPolicy(c, id)
    \/ \E c \in Clients, b \in Bodies : PostPolicy(c, b)
    \/ \E c \in Clients, id \in PolicyIdInputs, b \in Bodies : PutPolicy(c, id, b)
    \/ \E c \in Clients, id \in PolicyIdInputs : DeletePolicy(c, id)
    \/ \E c \in Clients : GetInvestments(c)
    \/ \E c \in Clients : GetStats(c)
    \/ \E c \in Clients : GetAnalytics(c)
    \/ \E c \in Clients, b \in Bodies : PostInvestment(c, b)
    \/ \E c \in Clients, id \in InvestmentIdInputs, b \in Bodies : PutInvestment(c, id, b)
    \/ \E c \in Clients, id \in InvestmentIdInputs : DeleteInvestment(c, id)
    \/ \E c \in Clients : AdminGetUsers(c)
    \/ \E c \in Clients, u \in UserIdInputs, r \in RoleInputs : AdminPutRole(c, u, r)
    \/ \E c \in Clients, u \in UserIdInputs : AdminDeleteUser(c, u)
    \/ \E c \in Clients, u \in UserIdInputs, p \in Passwords : AdminResetPassword(c, u, p)
    \/ \E c \in Clients, p \in Passwords, q \in Passwords : ChangePassword(c, p, q)

NextApi ==
    \/ \E c \in Clients, e \in EmailInputs, p \in Passwords, d \in DomainInputs :
            ApiRegister(c, e, p, d)
    \/ \E c \in Clients, e \in EmailInputs, p \in Passwords : ApiLogin(c, e, p)
    \/ \E c \in Clients : ApiLogout(c)
    \/ \E c \in Clients : ApiGetPolicies(c)
    \/ \E c \in Clients, id \in PolicyIdInputs : ApiGetPolicy(c, id)
    \/ \E c \in Clients, b \in Bodies : ApiPostPolicy(c, b)
    \/ \E c \in Clients, id \in PolicyIdInputs, b \in Bodies : ApiPutPolicy(c, id, b)
    \/ \E c \in Clients, id \in PolicyIdInputs : ApiDeletePolicy(c, id)
    \/ \E c \in Clients : ApiGetInvestments(c)
    \/ \E c \in Clients : ApiGetStats(c)
    \/ \E c \in Clients, id \in InvestmentIdInputs : ApiGetInvestment(c, id)
    \/ \E c \in Clients, b \in Bodies : ApiPostInvestment(c, b)
    \/ \E c \in Clients, id \in InvestmentIdInputs, b \in Bodies : ApiPutInvestment(c, id, b)
    \/ \E c \in Clients, id \in InvestmentIdInputs : ApiDeleteInvestment(c, id)
    \/ \E c \in Clients : ApiAdminGetUsers(c)
    \/ \E c \in Clients, u \in UserIdInputs, r \in RoleInputs : ApiAdminPutRole(c, u, r)
    \/ \E c \in Clients, u \in UserIdInputs : ApiAdminDeleteUser(c, u)
    \/ \E c \in Clients, u \in UserIdInputs, p \in Passwords : ApiAdminResetPassword(c, u, p)
    \/ \E c \in Clients, p \in Passwords, q \in Passwords : ApiChangePassword(c, p, q)

NextSimple ==
    \/ \E c \in Clients, e \in EmailInputs, p \in Passwords, d \in DomainInputs : SimpleRegister(c, e, p, d)
    \/ \E c \in Clients, e \in EmailInputs, p \in Passwords : SimpleLogin(c, e, p)

Next == NextServer \/ NextApi \/ NextSimple \/ Tick

Spec == Init /\ [][Next]_vars

\* accounts only: registration, sessions and the admin surface of every deployment
NextAccounts ==
    \/ \E c \in Clients, e \in EmailInputs, p \in Passwords, d \in DomainInputs : Register(c, e, p, d)
    \/ \E c \in Clients, e \in EmailInputs, p \in Passwords : Login(c, e, p)
    \/ \E c \in Clients : Logout(c)
    \/ \E c \in Clients : AdminGetUsers(c)
    \/ \E c \in Clients, u \in UserIdInputs, r \in RoleInputs : AdminPutRole(c, u, r)
    \/ \E c \in Clients, u \in UserIdInputs : AdminDeleteUser(c, u)
    \/ \E c \in Clients, u \in UserIdInputs, p \in Passwords : AdminResetPassword(c, u, p)
    \/ \E c \in Clients, e \in EmailInputs, p \in Passwords, d \in DomainInputs : ApiRegister(c, e, p, d)
    \/ \E c \in Clients, e \in EmailInputs, p \in Passwords : ApiLogin(c, e, p)
    \/ \E c \in Clients : ApiLogout(c)
    \/ \E c \in Clients : ApiAdminGetUsers(c)
    \/ \E c \in Clients, u \in UserIdInputs, r \in RoleInputs : ApiAdminPutRole(c, u, r)
    \/ \E c \in Clients, u \in UserIdInputs : ApiAdminDeleteUser(c, u)
    \/ \E c \in Clients, u \in UserIdInputs, p \in Passwords : ApiAdminResetPassword(c, u, p)
    \/ NextSimple

SpecAccounts == Init /\ [][NextAccounts]_vars

\* records only: sessions and the policy and investment routes of "server" and "api";
\* no record route reads a password, the accounts here all use the same one
RecordPasswords == {MaxPassword}

NextRecords ==
    \/ \E c \in Clients, e \in EmailInputs, p \in RecordPasswords, d \in DomainInputs :
            Register(c, e, p, d)
    \/ \E c \in Clients, e \in EmailInputs, p \in RecordPasswords : Login(c, e, p)
    \/ \E c \in Clients : Logout(c)
    \/ \E c \in Clients : GetPolicies(c)
    \/ \E c \in Clients, id \in PolicyIdInputs : GetPolicy(c, id)
    \/ \E c \in Clients, b \in Bodies : PostPolicy(c, b)
    \/ \E c \in Clients, id \in PolicyIdInputs, b \in Bodies : PutPolicy(c, id, b)
    \/ \E c \in Clients, id \in PolicyIdInputs : DeletePolicy(c, id)
    \/ \E c \in Clients : GetInvestments(c)
    \/ \E c \in Clients, b \in Bodies : PostInvestment(c, b)
    \/ \E c \in Clients, id \in InvestmentIdInputs, b \in Bodies : PutInvestment(c, id, b)
    \/ \E c \in Clients, id \in InvestmentIdInputs : DeleteInvestment(c, id)
    \/ \E c \in Clients, e \in EmailInputs, p \in RecordPasswords, d \in DomainInputs :
            ApiRegister(c, e, p, d)
    \/ \E c \in Clients, e \in EmailInputs, p \in RecordPasswords : ApiLogin(c, e, p)
    \/ \E c \in Clients : ApiLogout(c)
    \/ \E c \in Clients : ApiGetPolicies(c)
    \/ \E c \in Clients, id \in PolicyIdInputs : ApiGetPolicy(c, id)
    \/ \E c \in Clients, b \in Bodies : ApiPostPolicy(c, b)
    \/ \E c \in Clients, id \in PolicyIdInputs, b \in Bodies : ApiPutPolicy(c, id, b)
    \/ \E c \in Clients, id \in PolicyIdInputs : ApiDeletePolicy(c, id)
    \/ \E c \in Clients : ApiGetInvestments(c)
    \/ \E c \in Clients, id \in InvestmentIdInputs : ApiGetInvestment(c, id)
    \/ \E c \in Clients, b \in Bodies : ApiPostInvestment(c, b)
    \/ \E c \in Clients, id \in InvestmentIdInputs, b \in Bodies : ApiPutInvestment(c, id, b)
    \/ \E c \in Clients, id \in InvestmentIdInputs : ApiDeleteInvestment(c, id)

SpecRecords == Init /\ [][NextRecords]_vars

\* registrations and the admin operations that change who is in a tenant, with one
\* account more than the other specifications
AccountInputs == 1..Min(Len(users) + 1, MaxAccounts)

NextRegistrations ==
    \E c \in Clients :
        \/ \E e \in AccountInputs, d \in DomainInputs : Register(c, e, MaxPassword, d)
        \/ \E e \in AccountInputs, d \in DomainInputs : ApiRegister(c, e, MaxPassword, d)
        \/ \E e \in AccountInputs, d \in DomainInputs : SimpleRegister(c, e, MaxPassword, d)
        \/ \E u \in AccountInputs, r \in Roles : AdminPutRole(c, u, r)
        \/ \E u \in AccountInputs : AdminDeleteUser(c, u)

SpecRegistrations == Init /\ [][NextRegistrations]_vars

\* sessions over time: opening, using, closing and outliving a session
NextSessions ==
    \/ \E c \in Clients, e \in EmailInputs, d \in DomainInputs : Register(c, e, MaxPassword, d)
    \/ \E c \in Clients, e \in EmailInputs : Login(c, e, MaxPassword)
    \/ \E c \in Clients : Logout(c)
    \/ \E c \in Clients : GetPolicies(c)
    \/ \E c \in Clients, e \in EmailInputs, d \in DomainInputs : ApiRegister(c, e, MaxPassword, d)
    \/ \E c \in Clients, e \in EmailInputs : ApiLogin(c, e, MaxPassword)
    \/ \E c \in Clients : ApiLogout(c)
    \/ \E c \in Clients : ApiGetPolicies(c)
    \/ Tick

SpecSessions == Init /\ [][NextSessions]_vars

\* passwords: registration, login and self-service change of password
NextPasswords ==
    \/ \E c \in Clients, e \in EmailInputs, p \in Passwords, d \in DomainInputs : Register(c, e, p, d)
    \/ \E c \in Clients, e \in EmailInputs, p \in Passwords : Login(c, e, p)
    \/ \E c \in Clients : Logout(c)
    \/ \E c \in Clients, p \in Passwords, q \in Passwords : ChangePassword(c, p, q)
    \/ \E c \in Clients, e \in EmailInputs, p \in Passwords, d \in DomainInputs : ApiRegister(c, e, p, d)
    \/ \E c \in Clients, e \in EmailInputs, p \in Passwords : ApiLogin(c, e, p)
    \/ \E c \in Clients : ApiLogout(c)
    \/ \E c \in Clients, p \in Passwords, q \in Passwords : ApiChangePassword(c, p, q)

SpecPasswords == Init /\ [][NextPasswords]_vars

\* registrations that interleave at their awaits; any email and any domain, so that
\* two requests in flight can name the same ones or different ones
AllEmails == 1..MaxEmails

AllDomains == 1..MaxDomains

NextInterleaved ==
    \E c \in Clients :
        \/ \E e \in AllEmails, d \in AllDomains : RegisterCheck(c, e, MaxPassword, d)
        \/ RegisterGetTenant(c)
        \/ RegisterCreateTenant(c)
        \/ RegisterCount(c)
        \/ RegisterInsert(c)

SpecInterleaved == Init /\ [][NextInterleaved]_vars

\* investments over time: creating and updating while the clock runs
NextInvestmentClock ==
    \/ \E c \in Clients, e \in EmailInputs, d \in DomainInputs : Register(c, e, MaxPassword, d)
    \/ \E c \in Clients, b \in Bodies : PostInvestment(c, b)
    \/ \E c \in Clients, id \in InvestmentIdInputs, b \in Bodies : PutInvestment(c, id, b)
    \/ \E c \in Clients, e \in EmailInputs, d \in DomainInputs : ApiRegister(c, e, MaxPassword, d)
    \/ \E c \in Clients, b \in Bodies : ApiPostInvestment(c, b)
    \/ \E c \in Clients, id \in InvestmentIdInputs, b \in Bodies : ApiPutInvestment(c, id, b)
    \/ (now < ClockHorizon /\ Tick)

SpecInvestmentClock == Init /\ [][NextInvestmentClock]_vars

\* dashboard statistics: the function is applied to the tables that creates with
\* dated policies, or investments in several currencies, leave behind. Every
\* account registered alone in its tenant and logged in today.
StatAccounts == Min(MaxEmails, Min(MaxDomains, MaxAccounts))

\* the days a policy's date columns take: none, days around today, the day 30
\* days after the last today, and the days around the end of the 60-day window
StatDays ==
    {Absent} \cup 1..(ClockHorizon + 1) \cup {ApiRenewalDays + ClockHorizon}
        \cup {StatsWindowDays + ClockHorizon, StatsWindowDays + ClockHorizon + 1}

StatPolicyRows ==
    {policyRow([val |-> 1, tenantId |-> t, maturityDate |-> m, nextRenewalDate |-> r], t) :
        t \in 1..StatAccounts, m \in StatDays, r \in StatDays}

\* currency is free text: the two the dashboard knows, and another one
StatCurrencies == {"SEK", "INR", "USD"}

\* investments created earlier (day 0), with a currency or with the column default
StatInvestmentRows ==
    {[investmentRow(i, i.tenantId) EXCEPT !.lastUpdated = 0] :
        i \in [val : Vals, tenantId : 1..StatAccounts, currency : StatCurrencies]
              \cup [val : Vals, tenantId : 1..StatAccounts]}

InitStats ==
    /\ deployment \in {"server", "api"}
    /\ now \in 1..ClockHorizon
    /\ tenants = [t \in 1..StatAccounts |-> t]
    /\ users = [u \in 1..StatAccounts |->
                  [email |-> u, passwordHash |-> BcryptHash(MaxPassword), tenantId |-> u,
                   role |-> "admin", regDomain |-> u]]
    /\ sessions = [c \in Clients |->
                     LET u == Min(c, StatAccounts) IN NewSession(u, u, "admin")]
    /\ last = NoResponse
    /\ pending = [c \in Clients |-> NoRegistration]
    /\ blobs = <<>>
    /\ updating = [c \in Clients |-> NoUpdate]
    /\ adminCall = [c \in Clients |-> NoAdminCall]

InitPolicyStats ==
    /\ InitStats
    /\ policies \in UNION {[1..n -> StatPolicyRows] : n \in 0..MaxStatRows}
    /\ nextPolicyId = Len(policies) + 1
    /\ investments = <<>>
    /\ nextInvestmentId = 1

InitInvestmentStats ==
    /\ InitStats
    /\ policies = <<>>
    /\ nextPolicyId = 1
    /\ investments \in UNION {[1..n -> StatInvestmentRows] : n \in 0..MaxStatRows}
    /\ nextInvestmentId = Len(investments) + 1

\* dashboard analytics over policies with a premium (none, 12 or 1200) and a
\* frequency (yearly, another one, none)
StatPremiums == {Absent, MonthsPerYear, 100 * MonthsPerYear}

StatFrequencies == {"yearly", "monthly", Null}

StatPremiumRows ==
    {policyRow([val |-> 1, tenantId |-> t, premium |-> p, premiumFrequency |-> f], t) :
        t \in 1..StatAccounts, p \in StatPremiums, f \in StatFrequencies}

InitAnalytics ==
    /\ InitStats
    /\ deployment = "server"
    /\ policies \in UNION {[1..n -> StatPremiumRows] : n \in 0..MaxStatRows}
    /\ nextPolicyId = Len(policies) + 1
    /\ investments = <<>>
    /\ nextInvestmentId = 1

NextAnalytics == \E c \in Clients : GetAnalytics(c)

SpecAnalytics == InitAnalytics /\ [][NextAnalytics]_vars

\* policies with documents: requests with and without a file, while the document
\* storage answers or fails
FileBodies ==
    [val : {1}, tenantId : {Absent}] \cup [val : {1}, tenantId : {Absent}, file : {TRUE}]

NextDocuments ==
    \/ \E c \in Clients, e \in EmailInputs, d \in DomainInputs :
            ApiRegister(c, e, MaxPassword, d)
    \/ \E c \in Clients, b \in FileBodies : ApiPostPolicy(c, b)
    \/ \E c \in Clients, id \in PolicyIdInputs, b \in FileBodies : ApiPutPolicy(c, id, b)
    \/ \E c \in Clients, id \in PolicyIdInputs : ApiDeletePolicy(c, id)

SpecDocuments == Init /\ [][NextDocuments]_vars

\* members of one tenant working on the tenant's policies
NextShared ==
    \/ \E c \in Clients, e \in EmailInputs, d \in DomainInputs : Register(c, e, MaxPassword, d)
    \/ \E c \in Clients : GetPolicies(c)
    \/ \E c \in Clients, b \in Bodies : PostPolicy(c, b)
    \/ \E c \in Clients, id \in PolicyIdInputs, b \in Bodies : PutPolicy(c, id, b)
    \/ \E c \in Clients, id \in PolicyIdInputs : DeletePolicy(c, id)

SpecShared == Init /\ [][NextShared]_vars

\* updates of one record in flight together, from the sessions one account has
\* opened on every client, on the tenant's one policy and one investment (created on
\* day 0). A policy update names its value and its premium, its value alone, or
\* nothing; an investment update its value or nothing
UpdateBodies ==
    {[val |-> 1, tenantId |-> Absent, premium |-> MonthsPerYear],
     [val |-> 2, tenantId |-> Absent, premium |-> Absent],
     [val |-> Absent, tenantId |-> Absent, premium |-> Absent]}

InvestmentUpdateBodies == [val : {Absent, 2}, tenantId : {Absent}]

CreateBodies == [val : {1}, tenantId : {1}]

InitUpdates ==
    /\ deployment = "server"
    /\ now \in 1..ClockHorizon
    /\ tenants = <<1>>
    /\ users = <<[email |-> 1, passwordHash |-> BcryptHash(MaxPassword), tenantId |-> 1,
                  role |-> "admin", regDomain |-> 1]>>
    /\ sessions = [c \in Clients |-> NewSession(1, 1, "admin")]
    /\ policies = <<policyRow([val |-> 1, tenantId |-> 1], 1)>>
    /\ nextPolicyId = 2
    /\ investments = <<[investmentRow([val |-> 1, tenantId |-> 1], 1) EXCEPT !.lastUpdated = 0]>>
    /\ nextInvestmentId = 2
    /\ last = NoResponse
    /\ pending = [c \in Clients |-> NoRegistration]
    /\ blobs = <<>>
    /\ updating = [c \in Clients |-> NoUpdate]
    /\ adminCall = [c \in Clients |-> NoAdminCall]

NextUpdates ==
    \/ \E c \in Clients, id \in PolicyIdInputs, b \in UpdateBodies : PutPolicyParse(c, id, b)
    \/ \E c \in Clients : PutPolicyUpdate(c)
    \/ \E c \in Clients, id \in InvestmentIdInputs, b \in InvestmentUpdateBodies :
            PutInvestmentParse(c, id, b)
    \/ \E c \in Clients : PutInvestmentUpdate(c)

SpecUpdates == InitUpdates /\ [][NextUpdates]_vars

\* members come and go while the tenant's records are read and written
NextRemoval ==
    \/ \E c \in Clients, e \in EmailInputs, d \in DomainInputs : Register(c, e, MaxPassword, d)
    \/ \E c \in Clients, u \in UserIdInputs : AdminDeleteUser(c, u)
    \/ \E c \in Clients : GetPolicies(c)
    \/ \E c \in Clients, b \in CreateBodies : PostPolicy(c, b)
    \/ \E c \in Clients : GetInvestments(c)
    \/ \E c \in Clients, b \in CreateBodies : PostInvestment(c, b)

SpecRemoval == Init /\ [][NextRemoval]_vars

\* admins of one tenant acting on each other, their requests in flight together
NextAdmins ==
    \/ \E c \in Clients, e \in EmailInputs, d \in DomainInputs : Register(c, e, MaxPassword, d)
    \/ \E c \in Clients, u \in UserIdInputs, r \in Roles : AdminAdmit(c, "adminPutRole", u, r)
    \/ \E c \in Clients, u \in UserIdInputs : AdminAdmit(c, "adminDeleteUser", u, "none")
    \/ \E c \in Clients : AdminPutRoleHandler(c)
    \/ \E c \in Clients : AdminDeleteUserHandler(c)

SpecAdmins == Init /\ [][NextAdmins]_vars

NextStats ==
    \/ \E c \in Clients : GetStats(c)
    \/ \E c \in Clients : ApiGetStats(c)

SpecPolicyStats == InitPolicyStats /\ [][NextStats]_vars

SpecInvestmentStats == InitInvestmentStats /\ [][NextStats]_vars

\* ==== properties ========================================================================
\* a step that handles a request (every step but Tick)
RequestStep == now' = now

\* the tenant the session of the last request is bound to
LastTenant == sessions[last.client].tenantId

PolicyReads == {"getPolicies", "getPolicy"}
InvestmentReads == {"getInvestments", "getInvestment"}
PolicyWrites == {"putPolicy", "deletePolicy"}
InvestmentWrites == {"putInvestment", "deleteInvestment"}

\* a row created by a session of one tenant is in no list or get result of a session
\* of another tenant
C1_ReadsIsolated ==
    /\ (last.op \in PolicyReads /\ last.status = 200) =>
           \A id \in last.rows : policies[id].origin = LastTenant
    /\ (last.op \in InvestmentReads /\ last.status = 200) =>
           \A id \in last.rows : investments[id].origin = LastTenant

\* an update or delete leaves every row created by another tenant in place and as it was
C1_WritesIsolated ==
    /\ (RequestStep /\ last'.op \in PolicyWrites) =>
           \A id \in DOMAIN policies :
               policies[id].origin # sessions[last'.client].tenantId =>
                   id \in DOMAIN policies' /\ policies'[id] = policies[id]
    /\ (RequestStep /\ last'.op \in InvestmentWrites) =>
           \A id \in DOMAIN investments :
               investments[id].origin # sessions[last'.client].tenantId =>
                   id \in DOMAIN investments' /\ investments'[id] = investments[id]

\* C1: for two distinct tenants, a policy or investment created by a session of the one
\* is never in a list or get result of a session of the other, and no update or delete
\* issued by a session of the other changes or removes it.
C1_TenantIsolation == [][C1_ReadsIsolated' /\ C1_WritesIsolated]_vars

\* C2: the tenantId of a policy or investment never changes after creation, whatever
\* fields an update carries.
C2_TenantIdImmutable ==
    [][/\ \A id \in DOMAIN policies \cap DOMAIN policies' :
            policies'[id].tenantId = policies[id].tenantId
       /\ \A id \in DOMAIN investments \cap DOMAIN investments' :
            investments'[id].tenantId = investments[id].tenantId]_vars

\* C3: every policy or investment a request creates is stored with the tenantId of the
\* session that sent the request, whatever tenantId the body carries.
C3_CreateStampsSessionTenant ==
    [][/\ \A id \in DOMAIN policies' \ DOMAIN policies :
            policies'[id].tenantId = sessions[last'.client].tenantId
       /\ \A id \in DOMAIN investments' \ DOMAIN investments :
            investments'[id].tenantId = sessions[last'.client].tenantId]_vars

\* an investment was just created by a request whose body named another tenant
C3_Witness ==
    /\ last.op = "postInvestment" /\ last.status = 201
    /\ last.tenantId \notin {Absent, LastTenant}
    /\ last.target \in DOMAIN investments
    /\ investments[last.target].tenantId = LastTenant

\* the session of c is bound to a tenant other than the one the row belongs to
CrossTenantPolicy(c, id) ==
    /\ sessions[c].userId # NoUser
    /\ id \in DOMAIN policies
    /\ policies[id].tenantId # sessions[c].tenantId

CrossTenantInvestment(c, id) ==
    /\ sessions[c].userId # NoUser
    /\ id \in DOMAIN investments
    /\ investments[id].tenantId # sessions[c].tenantId

\* bodies every schema and column accepts
WellFormedBodies == {b \in Bodies : b.val \in Vals /\ b.tenantId = Absent}

\* C4: a get, update or delete request that names a record of another tenant is
\* answered 404 not found (and so never 403 forbidden).
C4_CrossTenantNotFound ==
    [][\A c \in Clients :
        /\ \A id \in PolicyIdInputs :
              CrossTenantPolicy(c, id) =>
                /\ (GetPolicy(c, id) \/ ApiGetPolicy(c, id)) => last'.status = 404
                /\ (DeletePolicy(c, id) \/ ApiDeletePolicy(c, id)) => last'.status = 404
                /\ \A b \in WellFormedBodies :
                      (PutPolicy(c, id, b) \/ ApiPutPolicy(c, id, b)) => last'.status = 404
        /\ \A id \in InvestmentIdInputs :
              CrossTenantInvestment(c, id) =>
                /\ ApiGetInvestment(c, id) => last'.status = 404
                /\ (DeleteInvestment(c, id) \/ ApiDeleteInvestment(c, id)) => last'.status = 404
                /\ \A b \in WellFormedBodies :
                      (PutInvestment(c, id, b) \/ ApiPutInvestment(c, id, b)) =>
                          last'.status = 404]_vars

PublicOps == {"register", "login", "logout"}

\* C5: a request to a path other than login, register and logout that carries no valid
\* session is answered 401 and leaves users, tenants, policies and investments as they were.
C5_UnauthenticatedRejected ==
    [][(/\ RequestStep
        /\ last'.op \notin PublicOps
        /\ sessions[last'.client].userId = NoUser)
       => (last'.status = 401 /\ UNCHANGED store)]_vars

\* ---- accounts ---------------------------------------------------------------------
AdminOps == {"adminGetUsers", "adminPutRole", "adminDeleteUser", "adminResetPassword"}

\* the account the session of c resolves to
Acting(c) == users[sessions[c].userId]

\* C6: in server/routes.ts, a request to an admin-only operation from an authenticated
\* account whose stored role at the time of the request is not admin is answered 403 and
\* changes no account, whatever role the session was opened with.
C6_NonAdminForbidden ==
    [][(/\ RequestStep
        /\ deployment = "server"
        /\ last'.op \in AdminOps
        /\ sessions[last'.client].userId \in UserIds
        /\ Acting(last'.client).role # "admin")
       => (last'.status = 403 /\ users' = users)]_vars

\* an account that opened its session as admin and has since been demoted was refused
C6_Witness ==
    /\ deployment = "server"
    /\ last.op \in AdminOps /\ last.status = 403
    /\ sessions[last.client].userId \in UserIds
    /\ sessions[last.client].role = "admin"
    /\ Acting(last.client).role = "user"

\* C7: the first account created under a domain that had no tenant gets role admin and
\* every later account registered under that same domain gets role user.
C7_FirstAdminLaterUser ==
    [][Len(users') = Len(users) + 1 =>
         LET u == users'[Len(users')]
         IN /\ getTenantByDomain(u.regDomain) = {} => u.role = "admin"
            /\ (\E v \in UserIds : users[v].regDomain = u.regDomain) => u.role = "user"]_vars

\* a registration under a domain whose tenant has lost its first admin
C7_Witness ==
    /\ last.op = "register" /\ last.status = 201
    /\ last.target = Len(users)
    /\ users[Len(users)].role = "user"
    /\ \E v \in 1..(Len(users) - 1) :
          /\ users[v].regDomain = users[Len(users)].regDomain
          /\ users[v].role = "user"
          /\ users[v].tenantId = NoTenant

\* an account that is not of the tenant of the admin behind the session of c
OtherTenantAccount(c, u) ==
    /\ isAuthenticated(c) /\ isAdmin(c)
    /\ u \in UserIds
    /\ users[u].tenantId # Acting(c).tenantId

ValidPasswords == {p \in Passwords : PasswordLength(p) >= MinPasswordLength}

\* no admin operation changes an account of another tenant
C8_OtherTenantUnchanged(c, u) ==
    (\/ \E r \in RoleInputs : AdminPutRole(c, u, r)
     \/ AdminDeleteUser(c, u)
     \/ \E p \in Passwords : AdminResetPassword(c, u, p)) => users'[u] = users[u]

\* C8 (as stated): an admin operation never changes an account whose tenant differs from
\* the acting admin's tenant; every change-role and reset-password request on such an
\* account is answered 404.
C8_OtherTenantNotFound ==
    [][\A c \in Clients : \A u \in UserIds :
         OtherTenantAccount(c, u) =>
           /\ C8_OtherTenantUnchanged(c, u)
           /\ \A r \in RoleInputs : AdminPutRole(c, u, r) => last'.status = 404
           /\ \A p \in Passwords : AdminResetPassword(c, u, p) => last'.status = 404]_vars

\* C8 (amended): an admin operation never changes an account whose tenant differs from
\* the acting admin's tenant; a change-role request with role admin or user and a
\* reset-password request with a password of at least 6 characters on such an account
\* are answered 404.
C8_OtherTenantNotFoundValidInput ==
    [][\A c \in Clients : \A u \in UserIds :
         OtherTenantAccount(c, u) =>
           /\ C8_OtherTenantUnchanged(c, u)
           /\ \A r \in Roles : AdminPutRole(c, u, r) => last'.status = 404
           /\ \A p \in ValidPasswords : AdminResetPassword(c, u, p) => last'.status = 404]_vars

\* an admin asked for a valid role change of an account of another tenant
C8_Witness ==
    /\ deployment = "server"
    /\ last.op = "adminPutRole" /\ last.status = 404 /\ last.role \in Roles
    /\ isAuthenticated(last.client) /\ isAdmin(last.client)
    /\ last.target \in UserIds
    /\ users[last.target].tenantId \notin {NoTenant, Acting(last.client).tenantId}

\* C9: in server/routes.ts, a role change to user that an admin sends for their own
\* account is rejected with 400 and the stored role stays admin.
C9_SelfDemotionRejected ==
    [][\A c \in Clients :
         (isAuthenticated(c) /\ isAdmin(c) /\ AdminPutRole(c, sessions[c].userId, "user"))
         => (last'.status = 400 /\ users' = users /\ isAdmin(c)')]_vars

\* an admin has just asked to become user
C9_Witness ==
    /\ deployment = "server"
    /\ last.op = "adminPutRole" /\ last.status = 400 /\ last.role = "user"
    /\ last.target = sessions[last.client].userId
    /\ isAuthenticated(last.client) /\ isAdmin(last.client)

\* C10: in server/routes.ts, a remove-member request that an admin sends for their own
\* account is rejected with 400 and the account keeps its tenant and its role.
C10_SelfRemovalRejected ==
    [][\A c \in Clients :
         (isAuthenticated(c) /\ isAdmin(c) /\ AdminDeleteUser(c, sessions[c].userId))
         => /\ last'.status = 400
            /\ users'[sessions[c].userId].tenantId = Acting(c).tenantId
            /\ users'[sessions[c].userId].role = Acting(c).role]_vars

\* an admin has just asked to be removed
C10_Witness ==
    /\ deployment = "server"
    /\ last.op = "adminDeleteUser" /\ last.status = 400
    /\ last.target = sessions[last.client].userId
    /\ isAuthenticated(last.client) /\ isAdmin(last.client)
    /\ Acting(last.client).tenantId # NoTenant

\* ---- sessions --------------------------------------------------------------------
\* the session of c was destroyed, was never opened, or is past its expiry
Ended(c) == sessions[c].userId = NoUser \/ now >= sessions[c].expires

\* routes behind the authentication check that the session specifications exercise
GuardedOps == {"getPolicies"}

OpenOps == {"register", "login"}

\* C11: a session that was logged out or has expired is terminal: a request that
\* carries it is answered 401, and the client is authenticated again only by a new
\* successful login or registration.
C11_EndedSessionTerminal ==
    [][\A c \in Clients :
         /\ (Logout(c) \/ ApiLogout(c)) => Ended(c)'
         /\ (Ended(c) /\ RequestStep /\ last'.client = c /\ last'.op \in GuardedOps)
               => last'.status = 401
         /\ (Ended(c) /\ ~Ended(c)')
               => /\ last'.client = c
                  /\ last'.op \in OpenOps
                  /\ last'.status \in {200, 201}]_vars

\* a request carrying an expired session has just been refused
C11_Witness ==
    /\ last.op \in GuardedOps /\ last.status = 401
    /\ sessions[last.client].userId # NoUser
    /\ now >= sessions[last.client].expires

\* C12: a successful register or login opens a session bound to the account's user id
\* and tenant id, which the next request of the client passes the authentication check
\* with.
C12_SuccessOpensSession ==
    [][(RequestStep /\ last'.op \in OpenOps /\ last'.status \in {200, 201})
       => /\ sessions'[last'.client].userId = last'.target
          /\ sessions'[last'.client].tenantId = users'[last'.target].tenantId
          /\ now' < sessions'[last'.client].expires]_vars

\* C13: a session authenticates until 7 days after it was issued and no longer, and
\* a request made with it does not change when it was issued or when it expires.
C13_SevenDaysFromIssue ==
    [][\A c \in Clients :
         (/\ RequestStep /\ last'.client = c /\ last'.op \in GuardedOps
          /\ sessions[c].userId # NoUser)
         => /\ last'.status = 401 <=> now >= sessions[c].issued + SessionTtlDays
            /\ sessions'[c] = sessions[c]]_vars

\* a login that must fail: the email is unknown or the password does not match
BadCredentials(e, p) ==
    \/ getUserByEmail(e) = {}
    \/ \E u \in getUserByEmail(e) : users[u].passwordHash # BcryptHash(p)

\* C14: a login with an unknown email and a login with a known email and a wrong
\* password get the same response, 401 with the same body, and neither opens a session.
C14_LoginFailuresAlike ==
    [][\A c \in Clients : \A e \in EmailInputs : \A p \in Passwords :
         ((Login(c, e, p) \/ ApiLogin(c, e, p)) /\ BadCredentials(e, p))
         => /\ [last' EXCEPT !.creds = <<>>] = Response("login", 401, c, 0, {}, Absent, "none")
            /\ sessions' = sessions]_vars

\* a login with a known email and a wrong password has just been refused
C14_Witness ==
    /\ last.op = "login" /\ last.status = 401
    /\ getUserByEmail(last.creds[1]) # {}
    /\ sessions[last.client].userId = NoUser

\* C15: change-password rewrites the hash only when the current password verifies; with
\* a wrong current password the request fails with 400, the stored hash is unchanged,
\* the old password still verifies and the new one does not.
C15_ChangeNeedsCurrentPassword ==
    [][\A c \in Clients : \A cur \in Passwords : \A new \in Passwords :
         ((ChangePassword(c, cur, new) \/ ApiChangePassword(c, cur, new)) /\ ~Ended(c))
         => LET uid == sessions[c].userId
                old == users[uid].passwordHash
            IN /\ users'[uid].passwordHash # old => old = BcryptHash(cur)
               /\ old # BcryptHash(cur)
                    => /\ last'.status = 400
                       /\ users' = users
                       /\ \A p \in Passwords :
                            BcryptCompare(p, users'[uid].passwordHash) <=> old = BcryptHash(p)
                       /\ old # BcryptHash(new) => ~BcryptCompare(new, users'[uid].passwordHash)]_vars

\* a change to a valid new password was refused for a wrong current password
C15_Witness ==
    /\ last.op = "changePassword" /\ last.status = 400
    /\ PasswordLength(last.creds[2]) >= MinPasswordLength
    /\ last.target \in UserIds
    /\ users[last.target].passwordHash # BcryptHash(last.creds[1])
    /\ users[last.target].passwordHash # BcryptHash(last.creds[2])

\* no two accounts share an email
EmailsUnique == \A u \in UserIds : \A v \in UserIds : users[u].email = users[v].email => u = v

\* C16: in every reachable state no two accounts share an email; when registrations
\* with the same email interleave, the insert of the one that comes second fails (500)
\* and creates no account.
C16_EmailsUnique ==
    [][/\ EmailsUnique'
       /\ \A c \in Clients :
            (RegisterInsert(c) /\ getUserByEmail(pending[c].email) # {})
            => (last'.status = 500 /\ users' = users)]_vars

\* a registration passed the email check and then lost the insert to another one
C16_Witness ==
    /\ last.op = "register" /\ last.status = 500
    /\ pending[last.client].tenantId # NoTenant
    /\ getUserByEmail(pending[last.client].email) # {}

\* C17: removing a member clears the account's tenant and resets its role to user and
\* deletes nothing: the account keeps its id, email and password hash, every other
\* account is as it was, and the account is no longer in the tenant's member list.
C17_RemovalKeepsAccount ==
    [][\A c \in Clients : \A u \in UserIds :
         (/\ AdminDeleteUser(c, u)
          /\ last'.status = 204
          /\ users[u].tenantId = sessions[c].tenantId)
         => /\ Len(users') = Len(users)
            /\ users'[u] = [users[u] EXCEPT !.tenantId = NoTenant, !.role = "user"]
            /\ \A v \in UserIds \ {u} : users'[v] = users[v]
            /\ users'[u].tenantId # sessions[c].tenantId]_vars

\* an admin has just removed an account that is now outside every tenant
C17_Witness ==
    /\ deployment = "server"
    /\ last.op = "adminDeleteUser" /\ last.status = 204
    /\ last.target \in UserIds
    /\ users[last.target].tenantId = NoTenant
    /\ users[last.target].role = "user"
    /\ last.target \notin getUsersByTenant(sessions[last.client].tenantId)

\* C18: every successful investment update sets lastUpdated to the time of the update,
\* whichever fields the payload carries, and lastUpdated of an investment never decreases.
C18_UpdateStampsLastUpdated ==
    [][/\ (RequestStep /\ last'.op = "putInvestment" /\ last'.status = 200)
            => investments'[last'.target].lastUpdated = now
       /\ \A id \in DOMAIN investments \cap DOMAIN investments' :
            investments'[id].lastUpdated >= investments[id].lastUpdated]_vars

\* ---- C19 ---------------------------------------------------------------------------
\* the policies of the tenant whose dashboard the last response shows
StatsPolicies == getPolicies(sessions[last.client].tenantId)

\* C19: the dashboard counts a policy in needsRenewal exactly when it has a
\* nextRenewalDate no later than 60 days from now, and in expiringSoon exactly when
\* it has a maturityDate later than now and no later than 60 days from now (so a
\* maturityDate of today is left out and a nextRenewalDate 60 days ahead is counted).
C19_StatsWindows ==
    (last.op = "getStats" /\ last.status = 200) =>
        /\ last.stats.needsRenewal =
              Cardinality({id \in StatsPolicies :
                  /\ policies[id].nextRenewalDate # Absent
                  /\ policies[id].nextRenewalDate <= now + StatsWindowDays})
        /\ last.stats.expiringSoon =
              Cardinality({id \in StatsPolicies :
                  /\ policies[id].maturityDate # Absent
                  /\ now < policies[id].maturityDate
                  /\ policies[id].maturityDate <= now + StatsWindowDays})

\* ---- C20 ---------------------------------------------------------------------------
\* the investments of the tenant whose dashboard the last response shows
StatsInvestments == getInvestments(sessions[last.client].tenantId)

\* C20: on the dashboard, investmentsByCurrency.SEK and .INR are the sums of the
\* current values of the tenant's investments in that currency, and totalInvestments
\* counts every investment of the tenant, whatever its currency.
C20_CurrencyTotals ==
    (last.op = "getStats" /\ last.status = 200) =>
        /\ last.stats.SEK =
              SumCurrentValue({i \in StatsInvestments : investments[i].currency = "SEK"})
        /\ last.stats.INR =
              SumCurrentValue({i \in StatsInvestments : investments[i].currency = "INR"})
        /\ last.stats.totalInvestments = Cardinality(StatsInvestments)

\* a dashboard over a SEK investment and one in another currency: the other one is
\* counted, and the SEK total is the SEK investment's value alone
C20_Witness ==
    /\ last.op = "getStats" /\ last.status = 200
    /\ \E i, j \in StatsInvestments :
          /\ investments[i].currency = "SEK" /\ investments[j].currency = "USD"
          /\ last.stats.totalInvestments = 2
          /\ last.stats.SEK = investments[i].val
          /\ last.stats.INR = 0

\* ---- C21 ---------------------------------------------------------------------------
\* C21: the analytics answer has exactly one premiumsByProvider row per policy of
\* the tenant; for a yearly policy the row's monthlyPremium is a twelfth of the
\* premium and its yearlyPremium is the premium, for any other frequency the
\* monthlyPremium is the premium and the yearlyPremium is twelve times the premium.
C21_PremiumRows ==
    (last.op = "getAnalytics" /\ last.status = 200) =>
        /\ DOMAIN last.premiums = getPolicies(sessions[last.client].tenantId)
        /\ \A id \in DOMAIN last.premiums :
              IF policies[id].premiumFrequency = "yearly"
              THEN /\ last.premiums[id].monthlyPremium * 12 = policies[id].premium
                   /\ last.premiums[id].yearlyPremium = policies[id].premium
              ELSE /\ last.premiums[id].monthlyPremium = policies[id].premium
                   /\ last.premiums[id].yearlyPremium = policies[id].premium * 12

\* the analytics of a tenant with a yearly policy of premium 1200 (rows 100 and
\* 1200) and a monthly one
C21_Witness ==
    /\ last.op = "getAnalytics" /\ last.status = 200
    /\ \E id, other \in DOMAIN last.premiums :
          /\ policies[id].premiumFrequency = "yearly" /\ policies[id].premium = 1200
          /\ last.premiums[id].monthlyPremium = 100
          /\ last.premiums[id].yearlyPremium = 1200
          /\ policies[other].premiumFrequency = "monthly"
          /\ policies[other].premium = 1200

\* ---- C22 ---------------------------------------------------------------------------
\* the policy a delete request names exists, has a document, and belongs to the
\* tenant of the requesting session
OwnPolicyWithDocument(c, id) ==
    /\ SessionLive(c)
    /\ id \in DOMAIN policies
    /\ policies[id].tenantId = sessions[c].tenantId
    /\ policies[id].documentUrl # Absent

\* C22: deleting a policy that has a document removes the policy row and answers
\* 204, also when the document storage fails to delete the document.
C22_DeleteSurvivesStorageFailure ==
    [][(/\ last'.op = "deletePolicy" /\ last' # last
        /\ OwnPolicyWithDocument(last'.client, last'.target))
          => (last'.status = 204 /\ last'.target \notin DOMAIN policies')]_vars

\* a delete answered 204 whose policy row is gone although the storage failed: the
\* document is still in storage
C22_Witness ==
    /\ last.op = "deletePolicy" /\ last.status = 204 /\ last.blob.del = "failed"
    /\ last.target \notin DOMAIN policies
    /\ \E u \in DOMAIN blobs : blobs[u]

\* ---- C23 ---------------------------------------------------------------------------
PolicyChangeOps == {"postPolicy", "putPolicy", "deletePolicy"}

\* C23: when a member has created, updated or deleted a policy and another member
\* of the same tenant lists the policies next, the list is the one the author would
\* get: it has the created or updated policy and no longer has the deleted one.
C23_MembersSeeSameList ==
    [][(/\ last.op \in PolicyChangeOps /\ last.status \in {200, 201, 204}
        /\ last'.op = "getPolicies" /\ last'.status = 200
        /\ last'.client # last.client
        /\ sessions[last'.client].tenantId = sessions[last.client].tenantId)
          => /\ last'.rows = getPolicies(sessions[last.client].tenantId)
             /\ last.op # "deletePolicy" => last.target \in last'.rows
             /\ last.op = "deletePolicy" => last.target \notin last'.rows]_vars

\* a member with role user lists the policies of a tenant whose admin is logged in
\* on another client, and the list is not empty
C23_Witness ==
    /\ last.op = "getPolicies" /\ last.status = 200 /\ last.rows # {}
    /\ sessions[last.client].role = "user"
    /\ \E c \in Clients \ {last.client} :
          /\ sessions[c].role = "admin"
          /\ sessions[c].tenantId = sessions[last.client].tenantId

\* ---- C24 ---------------------------------------------------------------------------
\* the update of client c runs in this step
Applies(c) == updating[c].pc = "update" /\ updating'[c].pc = "done"

\* the columns an update names
Named(updates) == {f \in DOMAIN updates : updates[f] # Absent}

\* C24: an update that runs while others are in flight is applied as one row update:
\* every column it names takes its value, every other column of the row and every
\* other row stay as the updates before left them, and it is answered 200 (a policy
\* update naming no column aside); an investment update also stamps lastUpdated.
C24_LastWriterWins ==
    [][\A c \in Clients : Applies(c) =>
         LET u == updating[c]
         IN /\ (u.table = "policies" /\ Named(u.updates) # {}
                 /\ getPolicy(u.id, u.tenantId) # {}) =>
                  /\ last'.status = 200
                  /\ DOMAIN policies' = DOMAIN policies
                  /\ \A i \in DOMAIN policies : \A f \in DOMAIN policies[i] :
                        policies'[i][f] =
                            IF i = u.id /\ f \in Named(u.updates) THEN u.updates[f]
                            ELSE policies[i][f]
            /\ (u.table = "investments" /\ u.id \in getInvestments(u.tenantId)) =>
                  /\ last'.status = 200
                  /\ DOMAIN investments' = DOMAIN investments
                  /\ \A i \in DOMAIN investments : \A f \in DOMAIN investments[i] :
                        investments'[i][f] =
                            IF i = u.id /\ f \in Named(u.updates) THEN u.updates[f]
                            ELSE IF i = u.id /\ f = "lastUpdated" THEN now
                            ELSE investments[i][f]]_vars

\* two updates of one policy that were in flight together have both run: the first
\* named the value and the premium, the last one only another value; the row has
\* the last one's value and the first one's premium, and both were answered
C24_Witness ==
    \E c1, c2 \in Clients :
        /\ c1 # c2 /\ updating[c1].pc = "done" /\ updating[c2].pc = "done"
        /\ c1 \in updating[c2].others
        /\ updating[c1].table = "policies" /\ updating[c2].table = "policies"
        /\ updating[c1].id = updating[c2].id
        /\ last.client = c2 /\ last.op = "putPolicy" /\ last.status = 200
        /\ updating[c1].updates.val = 1 /\ updating[c1].updates.premium = MonthsPerYear
        /\ updating[c2].updates.val = 2 /\ updating[c2].updates.premium = Absent
        /\ updating[c1].id \in DOMAIN policies
        /\ policies[updating[c1].id].val = 2
        /\ policies[updating[c1].id].premium = MonthsPerYear

\* ---- C25 ---------------------------------------------------------------------------
RecordOps ==
    PolicyReads \cup InvestmentReads \cup PolicyWrites \cup InvestmentWrites
        \cup {"postPolicy", "postInvestment"}

\* the account that opened the session of client c is no longer a member of the
\* tenant the session is bound to
Removed(c) ==
    /\ sessions[c].userId # NoUser
    /\ users[sessions[c].userId].tenantId # sessions[c].tenantId

\* C25: a request on the policies or investments made with the session of a member
\* who has since been removed from the tenant returns no row of the tenant and
\* changes none.
C25_RemovedMemberShutOut ==
    [][(RequestStep /\ last'.op \in RecordOps /\ Removed(last'.client))
          => (last'.rows = {} /\ policies' = policies /\ investments' = investments)]_vars

\* ---- C26 ---------------------------------------------------------------------------
\* C26: with requests handled one after the other, every tenant that has a member
\* has a member with role admin.
C26_TenantsKeepAnAdmin ==
    \A t \in TenantIds :
        getUsersByTenant(t) # {} => \E u \in getUsersByTenant(t) : users[u].role = "admin"

\* the first member of a tenant, its admin by registration, has just been demoted
\* by another member, and the tenant has an admin
C26_Witness ==
    /\ last.op = "adminPutRole" /\ last.status = 200 /\ last.role = "user"
    /\ users[last.target].tenantId # NoTenant
    /\ \A u \in getUsersByTenant(users[last.target].tenantId) : last.target <= u
    /\ users[last.target].role = "user"
    /\ C26_TenantsKeepAnAdmin

\* ---- C27 ---------------------------------------------------------------------------
\* C27: when registrations interleave at their store calls, the accounts they create
\* in one tenant include at most one admin.
C27_OneAdminPerRegisteredTenant ==
    \A t \in TenantIds :
        Cardinality({u \in getUsersByTenant(t) : users[u].role = "admin"}) <= 1

\* ---- C28 ---------------------------------------------------------------------------
\* the admin request of client c is answered in this step and none is left in flight
Completes(c) ==
    /\ adminCall[c].pc = "admitted" /\ adminCall'[c].pc = "done"
    /\ \A d \in Clients : adminCall'[d].pc # "admitted"

\* C28: when the role and remove requests of a tenant's admins have been let through
\* by the admin check together and have all completed, the tenant has an admin.
C28_ConcurrentAdminsKeepAnAdmin ==
    [][\A c \in Clients : Completes(c) =>
          \E u \in UserIds :
              /\ users'[u].tenantId = adminCall[c].session.tenantId
              /\ users'[u].role = "admin"]_vars

\* ---- C29 ---------------------------------------------------------------------------
\* the registration of client c is answered with a failure in this step
RegistrationFails(c) ==
    /\ last' # last /\ last'.op = "register" /\ last'.client = c
    /\ last'.status \in {400, 500}

\* C29: a registration that is answered with a failure has written nothing: it has
\* created no tenant (and no account), so it leaves no tenant without members.
C29_FailedRegistrationWritesNothing ==
    [][\A c \in Clients : RegistrationFails(c) =>
          /\ users' = users
          /\ ~pending'[c].createdTenant]_vars

\* ---- C30 ---------------------------------------------------------------------------
\* C30: when a policy update carries a new file and storing it fails, the request is
\* answered with a failure, and the document the policy had before is still in
\* storage and still the one the policy refers to.
C30_FailedUploadKeepsOldDocument ==
    [][(/\ last' # last /\ last'.op = "putPolicy" /\ last'.blob.put = "failed"
        /\ last'.target \in DOMAIN policies
        /\ policies[last'.target].documentUrl # Absent
        /\ blobs[policies[last'.target].documentUrl])
          => /\ last'.status = 500
             /\ policies'[last'.target].documentUrl = policies[last'.target].documentUrl
             /\ blobs'[policies[last'.target].documentUrl]]_vars
====
